---- MODULE Spec2Model ----
(***************************************************************************)
(* KameMix: the channel registry, the mixer callback and the double        *)
(* buffered stream of src/src/KameMix.cpp and src/src/stream_buffer.cpp.   *)
(*                                                                         *)
(* Units.  Buffer positions and lengths are counted in samples (one sample *)
(* of the output format), so a stereo block is 2 and a mono block is 1.    *)
(* Times (fade lengths, secs_per_callback) are counted in ticks.  Stream   *)
(* times are counted in stereo blocks.  Gains are exact fractions <<n,d>>. *)
(***************************************************************************)
EXTENDS Integers, Sequences, FiniteSets, TLC

\* ------------------------------------------------------------------ bounds
MaxPlays == 3        \* play calls made by the host in one behaviour
MaxFadePlays == 1    \* the same, where voices are paused and faded
MaxStreamPlays == 2  \* the same, where a stream is played
MaxChanPlays == 2    \* the same, where every channel function is called

\* ------------------------------------------------------- program constants
secs_per_callback == 2     \* ticks of audio produced by one callback
audio_tmp_buf_len == 4     \* samples asked for by one callback (len)

\* the loaded sounds: their size in samples and their channels; "tone" is
\* as long as one callback's block
Sources == {"stereo", "mono", "tone"}
SoundSize(s) == IF s = "stereo" THEN 6 ELSE IF s = "tone" THEN 4 ELSE 3
SoundChannels(s) == IF s = "mono" THEN 1 ELSE 2

\* the stream buffer: STREAM_SIZE in samples, MIN_READ_SAMPLES as one block
STREAM_SIZE == 6
\* the loaded stream is stereo: a sample block of 2 samples; stream times are
\* counted in blocks.  A "short" stream fits one buffer, a "long" one does not.
StreamBlock == 2
StreamKinds == {"long", "short"}
StreamTotal(kind) ==
  IF kind = "long" THEN 8 ELSE IF kind = "upsampled" THEN 14 ELSE 4
\* total_size, which loadWAV computes from the blocks of the file before
\* decoding: the decoded size, but for a file with a higher sample rate than
\* the device ("resampled"), which decodes to fewer bytes, and for one with
\* a much lower rate ("upsampled"), which decodes to more than two buffers
StreamFileSize(kind) ==
  IF kind = "resampled" THEN 8 ELSE IF kind = "upsampled" THEN 4
  ELSE StreamTotal(kind)
ResampledKinds == {"long", "resampled"}
BufKinds == {"long", "short", "upsampled"}

\* ------------------------------------------------------------ input sets
LoopSet == {-1, 0, 1}
StartSet == {-1, 0, 1, 3, 17}  \* start sample; -1 and 3 are out of range, 17 overflows
FadeInSet == {0, 3}
PlayFadeSet == {-1, 0, 1}       \* -1 is what Sound::play passes
FadeOutSet == {-1, 1, 3, 4}    \* -1 is what KameMix_stop passes
VolSet == {1, 2}
StreamStartSet == {-1, 0, 2, 3}   \* start time in blocks; -1 is out of range

VARIABLES
  sounds,          \* kame_mix.sounds: sequence of PlayingSound
  free_list,       \* kame_mix.free_list
  number_playing,  \* kame_mix.number_playing
  next_id,         \* kame_mix.next_id
  refcount,        \* KameMix_Sound::refcount, per source
  cb_pc,           \* callback thread: "idle", or "mix" (between two locks)
  cb_i,            \* the callback's loop index i
  cb_out,          \* what the callback copied for voice i: id, amount, gain
  halted,          \* ghost: ids of the voices halt was applied to
  cb_freed,        \* ghost: ids of the voices a callback finished and freed
  cb_track,        \* ghost: bookkeeping of the callback in progress
  gh,              \* ghost: per handle id, the slot of its voice and its plays
  fo,              \* ghost: per voice id, its last fadeout(c, f) with f > 0
  sdata,           \* the StreamSharedData of the loaded stream
  m2,              \* holder of the stream's mutex2: "none", "dec" (readMore)
  read_tasks,      \* readMore threads detached and not yet at mutex2
  host_pc,         \* host in KameMix_playStream: "idle", "seek", "relock"
  host_args,       \* the arguments of that call
  stream_ch,       \* the channel the host keeps for the stream
  assert_on,       \* the build keeps assert() (NDEBUG is not defined)
  aborted,         \* an assertion failed
  lk_held,         \* per thread, the locks it holds, in the order it took them
  lk_pc,           \* per thread, the locking path it is on and its position
  rep,             \* ghost: per replaced voice id, the callbacks begun since
  unmixed,         \* ghost: per voice created unpaused and not yet copied by
                   \* a callback, whether a callback has begun since (0, 1)
  freed,           \* ghost: the sources the user has freed
  sb_src,          \* ghost: what filled the secondary buffer: "none",
                   \* "readMore" or "setPos"
  sb_call,         \* ghost: the last advance, updatePos or swapBuffers call
  fade_arg,        \* ghost: per static voice id, the fade_secs of its play call
  buffers,         \* per SoundBuffer handle, its sdata pointer (0 = nullptr)
  shared,          \* per SharedData object, its refcount and whether it is
                   \* "unused", "live", "freed" or "corrupt" (used when freed)
  rel,             \* ghost: per handle, whether release() was called on it
                   \* since it was last loaded or assigned, and the
                   \* decrements it has made since that call
  mix_idx,         \* AudioSystem: per Sound object, Sound::mix_idx (-1 = unset)
  updated          \* ghost: the last call made was AudioSystem::update

vars == <<sounds, free_list, number_playing, next_id, refcount,
          cb_pc, cb_i, cb_out, halted, cb_freed, cb_track, gh, fo,
          sdata, m2, read_tasks, host_pc, host_args, stream_ch, assert_on,
          aborted, lk_held, lk_pc, rep, unmixed, freed, sb_src, sb_call,
          fade_arg, buffers, shared, rel, mix_idx, updated>>

\* ---------------------------------------------------------------- helpers
Min(a, b) == IF a < b THEN a ELSE b

\* exact fractions <<n, d>> with d > 0
FMul(a, b) == <<a[1] * b[1], a[2] * b[2]>>
FLe(a, b) == a[1] * b[2] <= b[1] * a[2]
One == <<1, 1>>
Zero == <<0, 1>>

\* KameMix_Channel: [idx, id]; the unset channel has idx = -1
nullChannel == [idx |-> -1, id |-> 0]
KameMix_isChannelSet(c) == c.idx >= 0

\* the channels the host can hold: every handle returned so far, and unset
Handle(h) == [idx |-> gh[h].idx, id |-> h]
Handles == {Handle(h) : h \in 1..(next_id - 1)}
Channels == Handles \cup {nullChannel}

\* a slot after PlayingSound::release(): tag InvalidType, id 0.  The other
\* fields are dead until the slot is assigned again and are blanked here.
FreedSlot == [tag |-> "InvalidType", src |-> "none", buffer_pos |-> 0,
              loop_count |-> 0, id |-> 0, fade_total |-> 0, fade_time |-> 0,
              new_volume |-> 0, lvolume |-> 0, state |-> "FinishedState"]

isPlaying(s) == s.state = "PlayingState"
isFinished(s) == s.state = "FinishedState"
isPaused(s) == s.state = "PausedState"
isPausing(s) == s.state = "PausingState"
isUnpausing(s) == s.state = "UnpausingState"
isPauseChanging(s) == isPausing(s) \/ isUnpausing(s)
isFading(s) == s.fade_total # 0
isFadingIn(s) == s.fade_total > 0
isFadingOut(s) == s.fade_total < 0

unsetFade(s) == [s EXCEPT !.fade_total = 0, !.fade_time = 0]

setFadeinIgnoresNegative(s, fade) ==
  IF fade < 0 THEN unsetFade(s)
  ELSE [s EXCEPT !.fade_total = IF fade > secs_per_callback THEN fade
                                ELSE secs_per_callback,
                 !.fade_time = 0]
setFadein(s, fade) ==
  [s EXCEPT !.fade_total = IF fade > secs_per_callback THEN fade
                           ELSE secs_per_callback,
            !.fade_time = 0]

setFadeout(s, fade) ==
  IF fade > secs_per_callback
    THEN [s EXCEPT !.fade_total = -fade, !.fade_time = fade]
    ELSE [s EXCEPT !.fade_total = -secs_per_callback,
                   !.fade_time = secs_per_callback]

decrementLoopCountEarly(s) ==
  IF s.loop_count <= 1 THEN [s EXCEPT !.state = "FinishedState"]
  ELSE [s EXCEPT !.loop_count = @ - 1]
decrementLoopCount(s) ==
  IF s.loop_count = 0 THEN [s EXCEPT !.state = "FinishedState"]
  ELSE IF s.loop_count > 0 THEN [s EXCEPT !.loop_count = @ - 1]
  ELSE s

\* PlayingSound::PlayingSound(KameMix_Sound*, ...)
NewPlayingSoundAlwaysPaused(src, loops, buf_pos, paused, fade, vol, id) ==
  [tag |-> "SoundType", src |-> src, buffer_pos |-> buf_pos,
   loop_count |-> loops, id |-> id, fade_total |-> 0, fade_time |-> 0,
   new_volume |-> vol, lvolume |-> vol, state |-> "PausedState"]
NewPlayingSound(src, loops, buf_pos, paused, fade, vol, id) ==
  LET base == [tag |-> "SoundType", src |-> src, buffer_pos |-> buf_pos,
               loop_count |-> loops, id |-> id, fade_total |-> 0,
               fade_time |-> 0, new_volume |-> vol, lvolume |-> vol,
               state |-> IF paused THEN "PausedState" ELSE "PlayingState"]
  IN IF fade = 0 THEN unsetFade(base) ELSE setFadein(base, fade)

\* PlayingSound::release(): drops the source reference, tag and id
releaseKeepsId(s) == [FreedSlot EXCEPT !.id = s.id]
release(s) == FreedSlot
releaseRef(rc, s) ==
  IF s.tag = "InvalidType" THEN rc ELSE [rc EXCEPT ![s.src] = @ - 1]
\* KameMix_freeSound / KameMix_freeStream: fetch_sub(1); the object is
\* destroyed by the call that takes the count to 0
freeRef(rc, src) == [rc EXCEPT ![src] = @ - 1]
\* streamReadMore: KameMix_incStreamRef for each of the n threads detached
incStreamRefNever(rc, n) == rc
incStreamRef(rc, n) == [rc EXCEPT !["stream"] = @ + n]

\* int arithmetic, scaled down: a product outside the range wraps around
IntModulus == 32
IntWrap(x) == ((x + IntModulus \div 2) % IntModulus) - IntModulus \div 2

\* soundTimeToBytePos, with secs * frequency given as a sample position
soundTimeToBytePosUnchecked(src, sample_pos) ==
  sample_pos * SoundChannels(src)
soundTimeToBytePos(src, sample_pos) ==
  IF sample_pos = 0 THEN 0
  ELSE LET byte_pos == IntWrap(sample_pos * SoundChannels(src))
       IN IF byte_pos < 0 \/ byte_pos >= SoundSize(src) THEN 0 ELSE byte_pos

\* CopyStereo / CopyMono: amounts written to the target and read from src
CopyStereoSkips(dst_len, src_len) ==
  LET cpy_amount == Min(dst_len, src_len)
  IN [target_amount |-> cpy_amount \div 2, src_amount |-> cpy_amount]
CopyStereo(dst_len, src_len) ==
  LET cpy_amount == Min(dst_len, src_len)
  IN [target_amount |-> cpy_amount, src_amount |-> cpy_amount]

CopyMono(target_len, src_len) ==
  LET half_cpy_amount == Min(target_len \div 2, src_len)
  IN [target_amount |-> half_cpy_amount * 2, src_amount |-> half_cpy_amount]

Copy(channels, dst_len, src_len) ==
  IF channels = 1 THEN CopyMono(dst_len, src_len)
  ELSE CopyStereo(dst_len, src_len)

\* copySound: the loop of the template, as a recursion over its iterations.
\* Result: the voice, total_copied, the source ranges <<from, to, size>> that
\* were read, and used, the number of source samples read.
RECURSIVE copySoundLoop(_, _, _, _, _)
copySoundLoop(s, buf_left, total_copied, reads, used) ==
  IF isFinished(s)
    THEN [s |-> s, total |-> total_copied, reads |-> reads, used |-> used]
  ELSE
    LET size == SoundSize(s.src)
        src_left == size - s.buffer_pos
        cpy == Copy(SoundChannels(s.src), buf_left, src_left)
        total2 == total_copied + cpy.target_amount
        reads2 == reads \cup {<<s.buffer_pos, s.buffer_pos + cpy.src_amount, size>>}
    IN IF cpy.src_amount < src_left
         THEN [s |-> [s EXCEPT !.buffer_pos = @ + cpy.src_amount],
               total |-> total2, reads |-> reads2,
               used |-> used + cpy.src_amount]
         ELSE copySoundLoop([decrementLoopCount(s) EXCEPT !.buffer_pos = 0],
                            buf_left - cpy.target_amount, total2, reads2,
                            used + cpy.src_amount)

copySound(s, len) == copySoundLoop(s, len, 0, {}, 0)

\* PlayingSound::getVolumeData.  Master volume is 1, the voice is in no
\* group and at the listener's position, so new_lvol = new_rvol = new_volume
\* and the right channel equals the left one.
\* Result: the voice, and the ramp [vol, lfade (start), end] of the block.
getVolumeDataEndsBelowZero(s) ==
  LET new_lvol == s.new_volume
      changing == s.lvolume # new_lvol
  IN
  IF isFading(s) \/ isPauseChanging(s) \/ changing THEN
    LET start0 == IF isFadingIn(s) THEN <<s.fade_time, s.fade_total>>
                  ELSE IF isFadingOut(s) THEN <<s.fade_time, -s.fade_total>>
                  ELSE One
        end0 == IF isFadingIn(s)
                  THEN <<s.fade_time + secs_per_callback, s.fade_total>>
                ELSE IF isFadingOut(s)
                  THEN <<s.fade_time - secs_per_callback, -s.fade_total>>
                ELSE One
        adjust0 == isFading(s)
        \* previous volume; 0 is replaced by 0.01 when the volume changes
        left_volume == IF changing /\ s.lvolume = 0 THEN <<1, 100>>
                       ELSE <<s.lvolume, 1>>
        end1 == IF changing
                  THEN FMul(end0, <<new_lvol * left_volume[2], left_volume[1]>>)
                  ELSE end0
        s1 == IF changing THEN [s EXCEPT !.lvolume = new_lvol] ELSE s
        start2 == IF isUnpausing(s) THEN Zero ELSE start0
        end2 == IF isPausing(s) THEN Zero ELSE end1
        adjust == adjust0 /\ ~isPauseChanging(s)
        s2 == IF isPausing(s) THEN [s1 EXCEPT !.state = "PausedState"]
              ELSE IF isUnpausing(s) THEN [s1 EXCEPT !.state = "PlayingState"]
              ELSE s1
        s3 == IF ~adjust THEN s2
              ELSE IF isFadingOut(s2)
                THEN LET t == s2.fade_time - secs_per_callback
                     IN IF t < 0
                          THEN unsetFade([s2 EXCEPT !.state = "FinishedState"])
                          ELSE [s2 EXCEPT !.fade_time = t]
                ELSE LET t == s2.fade_time + secs_per_callback
                     IN IF t >= s2.fade_total THEN unsetFade(s2)
                        ELSE [s2 EXCEPT !.fade_time = t]
    IN [s |-> s3, vol |-> left_volume, lfade |-> start2, efade |-> end2]
  ELSE [s |-> s, vol |-> <<s.lvolume, 1>>, lfade |-> One, efade |-> One]
getVolumeDataRampCountsFade(s) ==
  LET new_lvol == s.new_volume
      changing == s.lvolume # new_lvol
  IN
  IF isFading(s) \/ isPauseChanging(s) \/ changing THEN
    LET start0 == IF isFadingIn(s) THEN <<s.fade_time, s.fade_total>>
                  ELSE IF isFadingOut(s) THEN <<s.fade_time, -s.fade_total>>
                  ELSE One
        end0 == IF isFadingIn(s)
                  THEN <<s.fade_time + secs_per_callback, s.fade_total>>
                ELSE IF isFadingOut(s)
                  THEN <<s.fade_time - secs_per_callback, -s.fade_total>>
                ELSE One
        adjust0 == isFading(s)
        \* previous volume; 0 is replaced by 0.01 when the volume changes
        left_volume == IF changing /\ s.lvolume = 0 THEN <<1, 100>>
                       ELSE <<s.lvolume, 1>>
        end1 == IF changing
                  THEN FMul(end0, <<new_lvol * left_volume[2], left_volume[1]>>)
                  ELSE end0
        s1 == IF changing THEN [s EXCEPT !.lvolume = new_lvol] ELSE s
        start2 == IF isUnpausing(s) THEN Zero ELSE start0
        end2 == IF isPausing(s) THEN Zero ELSE end1
        adjust == adjust0
        s2 == IF isPausing(s) THEN [s1 EXCEPT !.state = "PausedState"]
              ELSE IF isUnpausing(s) THEN [s1 EXCEPT !.state = "PlayingState"]
              ELSE s1
        s3 == IF ~adjust THEN s2
              ELSE IF isFadingOut(s2)
                THEN LET t == s2.fade_time - secs_per_callback
                     IN IF t <= 0
                          THEN unsetFade([s2 EXCEPT !.state = "FinishedState"])
                          ELSE [s2 EXCEPT !.fade_time = t]
                ELSE LET t == s2.fade_time + secs_per_callback
                     IN IF t >= s2.fade_total THEN unsetFade(s2)
                        ELSE [s2 EXCEPT !.fade_time = t]
    IN [s |-> s3, vol |-> left_volume, lfade |-> start2, efade |-> end2]
  ELSE [s |-> s, vol |-> <<s.lvolume, 1>>, lfade |-> One, efade |-> One]
getVolumeData(s) ==
  LET new_lvol == s.new_volume
      changing == s.lvolume # new_lvol
  IN
  IF isFading(s) \/ isPauseChanging(s) \/ changing THEN
    LET start0 == IF isFadingIn(s) THEN <<s.fade_time, s.fade_total>>
                  ELSE IF isFadingOut(s) THEN <<s.fade_time, -s.fade_total>>
                  ELSE One
        end0 == IF isFadingIn(s)
                  THEN <<s.fade_time + secs_per_callback, s.fade_total>>
                ELSE IF isFadingOut(s)
                  THEN <<s.fade_time - secs_per_callback, -s.fade_total>>
                ELSE One
        adjust0 == isFading(s)
        \* previous volume; 0 is replaced by 0.01 when the volume changes
        left_volume == IF changing /\ s.lvolume = 0 THEN <<1, 100>>
                       ELSE <<s.lvolume, 1>>
        end1 == IF changing
                  THEN FMul(end0, <<new_lvol * left_volume[2], left_volume[1]>>)
                  ELSE end0
        s1 == IF changing THEN [s EXCEPT !.lvolume = new_lvol] ELSE s
        start2 == IF isUnpausing(s) THEN Zero ELSE start0
        end2 == IF isPausing(s) THEN Zero ELSE end1
        adjust == adjust0 /\ ~isPauseChanging(s)
        s2 == IF isPausing(s) THEN [s1 EXCEPT !.state = "PausedState"]
              ELSE IF isUnpausing(s) THEN [s1 EXCEPT !.state = "PlayingState"]
              ELSE s1
        s3 == IF ~adjust THEN s2
              ELSE IF isFadingOut(s2)
                THEN LET t == s2.fade_time - secs_per_callback
                     IN IF t <= 0
                          THEN unsetFade([s2 EXCEPT !.state = "FinishedState"])
                          ELSE [s2 EXCEPT !.fade_time = t]
                ELSE LET t == s2.fade_time + secs_per_callback
                     IN IF t >= s2.fade_total THEN unsetFade(s2)
                        ELSE [s2 EXCEPT !.fade_time = t]
    IN [s |-> s3, vol |-> left_volume, lfade |-> start2, efade |-> end2]
  ELSE [s |-> s, vol |-> <<s.lvolume, 1>>, lfade |-> One, efade |-> One]

\* ------------------------------------------------------- StreamBuffer
\* The shared data of a stream: the primary buffer (time, size, end_pos), the
\* secondary one (time2, size2, end_pos2), pos_set, error, fully_buffered, the
\* decoder's position in the file (fpos, in samples; total at EOF).  Ghosts:
\* org and org2, the sample of the stream at which each buffer starts.

\* readMoreWAV from file position p: [size, end_pos, fpos]
RECURSIVE readLoop(_, _, _, _, _, _)
readLoop(dst, p, end_pos, total, buf_len, stop_at_eof) ==
  LET bytes_read == Min(buf_len - dst, total - p)
      dst1 == dst + bytes_read
      eof == p + bytes_read = total
      first == eof /\ end_pos = -1
      end1 == IF first THEN dst1 ELSE end_pos
      p1 == IF first THEN 0 ELSE p + bytes_read
      done == \/ first /\ stop_at_eof
              \/ eof /\ ~first
              \/ buf_len - dst1 < StreamBlock
  IN IF done THEN [size |-> dst1, end_pos |-> end1, fpos |-> p1]
     ELSE readLoop(dst1, p1, end1, total, buf_len, stop_at_eof)

readMoreWAV(p, total, buf_len, stop_at_eof) ==
  IF p = total THEN readLoop(0, 0, 0, total, buf_len, stop_at_eof)
  ELSE readLoop(0, p, -1, total, buf_len, stop_at_eof)

\* StreamBuffer::loadWAV at sec = 0
loadWAVKeepsEndPos(kind) ==
  LET total == StreamTotal(kind)
      full == StreamFileSize(kind) <= STREAM_SIZE
      rd == readMoreWAV(0, total, IF full THEN STREAM_SIZE * 2 ELSE STREAM_SIZE,
                        full)
  IN [fully_buffered |-> full, total |-> total, time |-> 0,
      size |-> rd.size, end_pos |-> rd.end_pos, org |-> 0,
      time2 |-> 0, size2 |-> 0, end_pos2 |-> -1, org2 |-> 0,
      pos_set |-> FALSE, error |-> FALSE, fpos |-> rd.fpos]
loadWAV(kind) ==
  LET total == StreamTotal(kind)
      full == StreamFileSize(kind) <= STREAM_SIZE
      rd == readMoreWAV(0, total, IF full THEN STREAM_SIZE * 2 ELSE STREAM_SIZE,
                        full)
  IN [fully_buffered |-> full, total |-> total, time |-> 0,
      size |-> rd.size,
      end_pos |-> IF full /\ rd.end_pos = -1 THEN rd.size ELSE rd.end_pos,
      org |-> 0,
      time2 |-> 0, size2 |-> 0, end_pos2 |-> -1, org2 |-> 0,
      pos_set |-> FALSE, error |-> FALSE, fpos |-> rd.fpos]

totalTime(st) == st.total \div StreamBlock

calcTime(st) ==
  [st EXCEPT !.time2 =
     IF st.end_pos2 # -1
       THEN IF st.end_pos2 = 0 THEN 0
            ELSE totalTime(st) - st.end_pos2 \div StreamBlock
     ELSE IF st.end_pos # -1
       THEN IF st.end_pos = st.size THEN 0
            ELSE (st.size - st.end_pos) \div StreamBlock
     ELSE st.time + st.size \div StreamBlock]

\* the body of readMore once mutex2 is held and the secondary is empty
readMoreFillRewinds(st, ok) ==
  IF ~ok THEN [st EXCEPT !.error = TRUE]
  ELSE LET rd == readMoreWAV(0, st.total, STREAM_SIZE, FALSE)
           st1 == [st EXCEPT !.size2 = rd.size, !.end_pos2 = rd.end_pos,
                             !.fpos = rd.fpos, !.org2 = 0]
       IN IF rd.size > 0 THEN calcTime(st1) ELSE [st1 EXCEPT !.error = TRUE]
readMoreFill(st, ok) ==
  IF ~ok THEN [st EXCEPT !.error = TRUE]
  ELSE LET rd == readMoreWAV(st.fpos, st.total, STREAM_SIZE, FALSE)
           st1 == [st EXCEPT !.size2 = rd.size, !.end_pos2 = rd.end_pos,
                             !.fpos = rd.fpos,
                             !.org2 = IF st.fpos = st.total THEN 0 ELSE st.fpos]
       IN IF rd.size > 0 THEN calcTime(st1) ELSE [st1 EXCEPT !.error = TRUE]

swapBuffersImpl(st) ==
  [st EXCEPT !.time = st.time2, !.time2 = 0,
             !.end_pos = st.end_pos2, !.end_pos2 = -1,
             !.size = st.size2, !.size2 = 0,
             !.org = st.org2, !.pos_set = FALSE]

\* StreamBuffer::swapBuffers; held = mutex2 is held by another thread
swapBuffers(st, held) ==
  IF st.fully_buffered THEN [st |-> st, result |-> "StreamReady"]
  ELSE IF held THEN [st |-> st, result |-> "StreamNotReady"]
  ELSE IF st.size2 > 0
    THEN [st |-> swapBuffersImpl(st), result |-> "StreamReady"]
  ELSE IF st.error THEN [st |-> st, result |-> "StreamError"]
  ELSE [st |-> st, result |-> "StreamNoData"]

\* StreamBuffer::advance
advanceIgnoresPosSet(st, held) == swapBuffers(st, held)
advance(st, held) ==
  IF st.fully_buffered THEN [st |-> st, result |-> "StreamReady"]
  ELSE IF held THEN [st |-> st, result |-> "StreamNotReady"]
  ELSE IF st.size2 > 0 /\ ~st.pos_set
    THEN [st |-> swapBuffersImpl(st), result |-> "StreamReady"]
  ELSE IF st.error THEN [st |-> st, result |-> "StreamError"]
  ELSE IF st.pos_set THEN [st |-> st, result |-> "StreamPositionSet"]
  ELSE [st |-> st, result |-> "StreamNoData"]

\* StreamBuffer::updatePos
updatePos(st, held) ==
  IF st.fully_buffered THEN [st |-> st, result |-> "StreamReady"]
  ELSE IF held THEN [st |-> st, result |-> "StreamNotReady"]
  ELSE IF st.pos_set
    THEN [st |-> swapBuffersImpl(st), result |-> "StreamReady"]
  ELSE IF st.error THEN [st |-> st, result |-> "StreamError"]
  ELSE IF ~st.pos_set THEN [st |-> st, result |-> "StreamPositionNotSet"]
  ELSE [st |-> st, result |-> "StreamNoData"]

startPos(st) ==
  IF st.time = 0 THEN 0
  ELSE IF st.end_pos # -1 /\ st.end_pos # st.size THEN st.end_pos
  ELSE -1

getPos(st, sec) ==
  LET byte_pos == (sec - st.time) * StreamBlock
  IN IF byte_pos < 0 \/ byte_pos > st.size THEN -1 ELSE byte_pos

\* StreamBuffer::setPos(sec, swap_buffers) once mutex2 is held; ok = the seek
\* and the read succeed
setPosBuffers(st, sec, swap_buffers, ok) ==
  IF st.fully_buffered THEN [st |-> st, ret |-> TRUE]
  ELSE
    LET st1 == [st EXCEPT !.size2 = 0, !.end_pos2 = -1, !.time2 = 0,
                          !.pos_set = FALSE, !.error = TRUE]
        sec1 == IF sec < 0 \/ sec >= totalTime(st) THEN 0 ELSE sec
        rd == readMoreWAV(sec1 * StreamBlock, st.total, STREAM_SIZE, FALSE)
        st2 == [st1 EXCEPT !.size2 = rd.size, !.end_pos2 = rd.end_pos,
                           !.fpos = rd.fpos, !.org2 = sec1 * StreamBlock,
                           !.time2 = sec1, !.pos_set = TRUE]
    IN IF ok /\ rd.size > 0
         THEN [st |-> [(IF swap_buffers THEN swapBuffersImpl(st2) ELSE st2)
                         EXCEPT !.error = FALSE],
               ret |-> TRUE]
         ELSE [st |-> st1, ret |-> FALSE]

\* setPos(sec, true), the call of KameMix_playStream
setPos(st, sec, ok) == setPosBuffers(st, sec, TRUE, ok)

\* the sample of the stream that offset byte_pos of the primary buffer holds
\* (readMoreWAV: from org on up to end_pos, from sample 0 on after it); a
\* voice created at byte_pos starts there
StreamOffset(st, byte_pos) ==
  IF st.end_pos # -1 /\ byte_pos >= st.end_pos THEN byte_pos - st.end_pos
  ELSE (st.org + byte_pos) % st.total

\* PlayingSound::PlayingSound(KameMix_Stream*, ...)
NewPlayingStream(loops, buf_pos, paused, fade, vol, id) ==
  [NewPlayingSound("stream", loops, buf_pos, paused, fade, vol, id)
     EXCEPT !.tag = "StreamType"]

\* PlayingSound::streamSwapBuffers; asserts = the build keeps assert()
streamSwapBuffersRetriesOnError(s, st, held, tasks, asserts) ==
  LET sw == swapBuffers(st, held)
  IN IF sw.result = "StreamReady"
       THEN [s |-> [s EXCEPT !.buffer_pos = 0], st |-> sw.st,
             tasks |-> IF sw.st.fully_buffered THEN tasks ELSE tasks + 1,
             ok |-> TRUE, result |-> sw.result, abort |-> FALSE]
     ELSE [s |-> [s EXCEPT !.buffer_pos = st.size], st |-> st,
           tasks |-> tasks, ok |-> FALSE, result |-> sw.result,
           abort |-> FALSE]
streamSwapBuffers(s, st, held, tasks, asserts) ==
  LET sw == swapBuffers(st, held)
  IN IF sw.result = "StreamReady"
       THEN [s |-> [(IF sw.st.end_pos = 0 THEN decrementLoopCount(s) ELSE s)
                      EXCEPT !.buffer_pos = 0],
             st |-> sw.st,
             tasks |-> IF sw.st.fully_buffered THEN tasks ELSE tasks + 1,
             ok |-> TRUE, result |-> sw.result, abort |-> FALSE]
     ELSE IF sw.result = "StreamError"
       THEN [s |-> [s EXCEPT !.state = "FinishedState"], st |-> st,
             tasks |-> tasks, ok |-> FALSE, result |-> sw.result,
             abort |-> FALSE]
     ELSE [s |-> [s EXCEPT !.buffer_pos = st.size], st |-> st,
           tasks |-> tasks, ok |-> FALSE, result |-> sw.result,
           abort |-> asserts /\ sw.result = "StreamNoData"]

\* copyStream: one iteration of the loop of the template.  x = [s, st, tasks,
\* left, done, abort, acc]: the voice, the stream, the readMore threads, buf_left,
\* whether the loop was left, whether an assertion failed, and acc = [total,
\* reads, used, swap, fin]: total_copied, the ranges <<from, to, size>> read
\* from the primary buffer, the samples read, the result of the last swap tried
\* ("none" when none was), whether a failed swap made the voice Finished, and
\* segs = the runs <<sample, length>> of the stream that were copied, in the
\* order in which they were written to the scratch buffer, swaps = for each
\* swapBuffersImpl made, the offset up to which the voice had read the primary
\* buffer and the sizes of the two buffers before it.
copyStreamStep(x, held, asserts) ==
  LET s == x.s
      st == x.st
      end_pos == st.end_pos
      src_left == IF end_pos <= s.buffer_pos THEN st.size - s.buffer_pos
                  ELSE end_pos - s.buffer_pos
      cpy == CopyStereo(x.left, src_left)
      acc1 == [x.acc EXCEPT
                 !.total = @ + cpy.target_amount,
                 !.used = @ + cpy.src_amount,
                 !.reads = @ \cup {<<s.buffer_pos,
                                     s.buffer_pos + cpy.src_amount, st.size>>},
                 !.segs = IF cpy.src_amount > 0
                            THEN Append(@, <<StreamOffset(st, s.buffer_pos),
                                             cpy.src_amount>>)
                            ELSE @]
      x1 == [x EXCEPT !.acc = acc1, !.left = @ - cpy.target_amount]
      s1 == IF end_pos = st.size /\ cpy.target_amount > 0
              THEN decrementLoopCount(s) ELSE s
      sw == streamSwapBuffers(s1, st, held, x.tasks, asserts)
  IN IF isFinished(s) THEN [x EXCEPT !.done = TRUE]
     ELSE IF cpy.src_amount < src_left
       THEN [x1 EXCEPT !.s.buffer_pos = @ + cpy.src_amount, !.done = TRUE]
     ELSE IF s.buffer_pos + cpy.src_amount = st.size
       THEN [x1 EXCEPT !.s = sw.s, !.st = sw.st, !.tasks = sw.tasks,
                       !.done = ~sw.ok, !.abort = sw.abort,
                       !.acc.swap = sw.result,
                       !.acc.fin = ~sw.ok /\ ~isFinished(s1)
                                   /\ isFinished(sw.s),
                       !.acc.swaps =
                          IF sw.ok /\ ~st.fully_buffered
                            THEN Append(@, [at |-> s.buffer_pos + cpy.src_amount,
                                            size |-> st.size,
                                            size2 |-> st.size2])
                            ELSE @]
     ELSE [x1 EXCEPT !.s = decrementLoopCount([s EXCEPT !.buffer_pos = end_pos])]

\* the loop: each iteration's result is bound once
RECURSIVE copyStreamLoop(_, _, _)
copyStreamLoop(x, held, asserts) ==
  IF x.done THEN x
  ELSE CHOOSE r \in {copyStreamLoop(y, held, asserts) :
                       y \in {copyStreamStep(x, held, asserts)}} : TRUE

copyStream(s, st, held, tasks, asserts, len) ==
  copyStreamLoop([s |-> s, st |-> st, tasks |-> tasks, left |-> len,
                  done |-> FALSE, abort |-> FALSE,
                  acc |-> [total |-> 0, reads |-> {}, used |-> 0,
                           swap |-> "none", fin |-> FALSE, segs |-> <<>>,
                           swaps |-> <<>>]],
                 held, asserts)

\* ---------------------------------------------------------------- locks
\* The locks: the device lock of the audio backend ("device", held by the
\* audio thread around the callback and taken by SDL_LockAudioDevice), the mix
\* mutex ("audio_mutex"), and the stream's "mutex2" (secondary buffer) and
\* "mutex" (primary buffer).  A locking path is the sequence of lock
\* operations of one call; on a failed try_to_lock the next skip operations
\* are left out.
Lock(l) == [op |-> "lock", l |-> l, skip |-> 0]
TryLock(l, skip) == [op |-> "try", l |-> l, skip |-> skip]
Unlock(l) == [op |-> "unlock", l |-> l, skip |-> 0]

swapBuffersImplLocks == <<Lock("mutex"), Unlock("mutex")>>
\* swapBuffers, advance and updatePos: try_to_lock mutex2, then the swap
swapBuffersLocks ==
  <<TryLock("mutex2", Len(swapBuffersImplLocks) + 1)>>
    \o swapBuffersImplLocks \o <<Unlock("mutex2")>>
setPosLocksPrimaryFirst ==
  <<Lock("mutex"), Lock("mutex2"), Unlock("mutex2"), Unlock("mutex")>>
setPosLocks == <<Lock("mutex2")>> \o swapBuffersImplLocks \o <<Unlock("mutex2")>>
readMoreLocks == <<Lock("mutex2"), Unlock("mutex2")>>
\* the audio thread holds the device lock around the callback; the callback
\* takes audio_mutex and, around the mixing of each voice, gives it up
audioCallbackLocks ==
  <<Lock("device"), Lock("audio_mutex")>>
    \o swapBuffersLocks \o <<Unlock("audio_mutex"), Lock("audio_mutex")>>
    \o swapBuffersLocks \o <<Unlock("audio_mutex"), Lock("audio_mutex")>>
    \o <<Unlock("audio_mutex"), Unlock("device")>>
\* every host call but playStream: one lock_guard on audio_mutex
hostCallLocks == <<Lock("audio_mutex"), Unlock("audio_mutex")>>
\* KameMix_playStream when the position is not in the buffer
playStreamLocks ==
  <<Lock("audio_mutex"), Unlock("audio_mutex")>> \o setPosLocks
    \o <<Lock("audio_mutex"), Unlock("audio_mutex")>>
\* System::update: SDL_LockAudioDevice, lock_guard on audio_mutex, the
\* stream's advance or updatePos, SDL_UnlockAudioDevice, end of scope
updateLocksMixMutexOnly ==
  <<Lock("audio_mutex")>> \o swapBuffersLocks \o <<Unlock("audio_mutex")>>
updateLocks ==
  <<Lock("device"), Lock("audio_mutex")>> \o swapBuffersLocks
    \o <<Unlock("device"), Unlock("audio_mutex")>>

\* The uses of the voice table.  Use is a read or write of an entry of
\* sounds (or of its size), Local is work on the scratch buffer and on local
\* copies.  A callback is followed over two voices.
Use == [op |-> "use", l |-> "sounds", skip |-> 0]
Local == [op |-> "local", l |-> "audio_tmp_buf", skip |-> 0]
\* audioCallback of KameMix.cpp: copy, getVolumeData and freeChannel_locked,
\* guard.unlock(), applyVolume and mixStream, guard.lock()
audioCallbackUses ==
  <<Lock("device"), Lock("audio_mutex"),
    Use, Unlock("audio_mutex"), Local, Lock("audio_mutex"),
    Use, Unlock("audio_mutex"), Local, Lock("audio_mutex"),
    Use, Unlock("audio_mutex"), Unlock("device")>>
\* System::audioCallback: the object of a finished voice is copied to a local
\* pointer before guard.unlock() and soundFinished is called with it
System_audioCallbackUses ==
  <<Lock("device"), Lock("audio_mutex"),
    Use, Unlock("audio_mutex"), Local, Local, Lock("audio_mutex"),
    Use, Unlock("audio_mutex"), Local, Local, Lock("audio_mutex"),
    Use, Unlock("audio_mutex"), Unlock("device")>>
\* AudioSystem::audioCallback: after guard.unlock() it reads sound.state, and
\* sound.tag and sound.sound or sound.stream of a finished voice
AudioSystem_audioCallbackUses ==
  <<Lock("device"), Lock("audio_mutex"),
    Use, Unlock("audio_mutex"), Use, Local, Lock("audio_mutex"),
    Use, Unlock("audio_mutex"), Use, Local, Lock("audio_mutex"),
    Use, Unlock("audio_mutex"), Unlock("device")>>
\* a channel function or a play: lock_guard on audio_mutex, the entry
hostCallUses == <<Lock("audio_mutex"), Use, Unlock("audio_mutex")>>
\* System::update: the loop over sounds under both locks
updateUses ==
  <<Lock("device"), Lock("audio_mutex"), Use, Use,
    Unlock("device"), Unlock("audio_mutex")>>
UsePaths(t) ==
  IF t = "callback"
    THEN {audioCallbackUses, System_audioCallbackUses,
          AudioSystem_audioCallbackUses}
  ELSE {hostCallUses, updateUses}

Threads == {"callback", "host", "loader", "readMore"}
ThreadPaths(t) ==
  IF t = "callback" THEN {audioCallbackLocks}
  ELSE IF t = "readMore" THEN {readMoreLocks}
  ELSE {hostCallLocks, playStreamLocks, updateLocks}
Idle == [path |-> <<>>, i |-> 1]

\* ----------------------------------------------------------------- Init
NoOut == [id |-> 0, copied |-> 0, reads |-> {}, swap |-> "none",
          fin |-> FALSE, segs |-> <<>>, swaps |-> <<>>, vol |-> One, lfade |-> One, efade |-> One]
\* gh[id]: idx = the slot, loops = the loop count at creation, left = the
\* samples of the source still to be read for loops + 1 plays (0 when loops
\* is -1), touched = stop, fadeout, setLoopCount or a replacing play was
\* applied to the voice, or a decoder error finished it
NoGhost == [idx |-> -1, loops |-> 0, left |-> 0, touched |-> FALSE]
NewGhost(idx, loops, size, offset) ==
  [idx |-> idx, loops |-> loops,
   left |-> IF loops >= 0 THEN (size - offset) + loops * size ELSE 0,
   touched |-> FALSE]
\* a call that changes how long the voice of c, if c has one, will play
Touch(g, c) ==
  IF c.id \in DOMAIN g /\ \E k \in 1..Len(sounds) : sounds[k].id = c.id
    THEN [g EXCEPT ![c.id].touched = TRUE, ![c.id].left = 0,
                   ![c.id].loops = 0]
    ELSE g
\* the callback read used samples of the source of voice id; a voice that a
\* decoder error finished (err) counts as stopped
Played(g, id, used, err) ==
  IF err THEN [g EXCEPT ![id].touched = TRUE, ![id].left = 0, ![id].loops = 0]
  ELSE [g EXCEPT ![id].left = IF @ > used THEN @ - used ELSE 0]
NoArgs == [start |-> 0, loops |-> 0]
\* cb_track: n0 = sounds->size() when the callback began, live0 = the voices
\* that were audible then, new = the voices created since, each with the loop
\* index i at its creation, seen = the voices the callback has copied
NoTrack == [n0 |-> 0, live0 |-> {}, new |-> {}, seen |-> {}]
\* fo[id]: f = the fade asked for, n = the callbacks begun since (capped),
\* last = the gain at the end of the last block mixed since, ok = the gain has
\* not risen, nor fallen below zero, within or between the blocks mixed since
NoGain == <<-1, 1>>
\* a later stop (a fade of -1) replaces the fade-out that was asked for
Forget(f0, id) == [k \in DOMAIN f0 \ {id} |-> f0[k]]
CeilDiv(a, b) == (a + b - 1) \div b
FadeoutCallbacks(f) == CeilDiv(f, secs_per_callback) + 1

\* ------------------------------------------------------- SoundBuffer
\* SoundBuffer handles (three variables of the host) and the SharedData
\* objects they point to.
BufferHandles == {"a", "b", "c"}
SharedObjects == {1, 2}
NoRelease == [called |-> FALSE, decs |-> 0]

isLoaded(bs, h) == bs[h] # 0

\* SoundBuffer::incRefCount on handle h; a fetch_add on an object that was
\* freed is a use after free
incRefCount(bs, sh, h) ==
  IF bs[h] = 0 THEN sh
  ELSE IF sh[bs[h]].st # "live" THEN [sh EXCEPT ![bs[h]].st = "corrupt"]
  ELSE [sh EXCEPT ![bs[h]].refcount = @ + 1]

\* SoundBuffer::release on handle h: [bs, sh, dec] with dec = it decremented
SoundBuffer_release(bs, sh, h) ==
  IF bs[h] = 0 THEN [bs |-> bs, sh |-> sh, dec |-> FALSE]
  ELSE IF sh[bs[h]].st # "live"
    THEN [bs |-> bs, sh |-> [sh EXCEPT ![bs[h]].st = "corrupt"], dec |-> TRUE]
  ELSE IF sh[bs[h]].refcount = 1
    THEN [bs |-> [bs EXCEPT ![h] = 0],
          sh |-> [sh EXCEPT ![bs[h]] = [refcount |-> 0, st |-> "freed"]],
          dec |-> TRUE]
  ELSE [bs |-> bs, sh |-> [sh EXCEPT ![bs[h]].refcount = @ - 1],
        dec |-> TRUE]

\* sb_call: op = the call, before and after = the stream before and after
\* it, src = what had filled the secondary, held = mutex2 was held by another
\* thread, result = what it returned
NoCall == [op |-> "none"]

Init ==
  /\ sounds = <<>>
  /\ free_list = <<>>
  /\ number_playing = 0
  /\ next_id = 1
  /\ refcount = incStreamRef([s \in Sources \cup {"stream"} |-> 1], 1)
  /\ cb_pc = "idle"
  /\ cb_i = 0
  /\ cb_out = NoOut
  /\ halted = {}
  /\ cb_freed = {}
  /\ cb_track = NoTrack
  /\ gh = [h \in 1..MaxPlays |-> NoGhost]
  /\ fo = <<>>
  /\ sdata = loadWAV("long")
  /\ m2 = "none"
  /\ read_tasks = 1
  /\ host_pc = "idle"
  /\ host_args = NoArgs
  /\ stream_ch = nullChannel
  /\ assert_on = FALSE
  /\ aborted = FALSE
  /\ lk_held = [t \in Threads |-> <<>>]
  /\ lk_pc = [t \in Threads |-> Idle]
  /\ rep = <<>>
  /\ unmixed = <<>>
  /\ freed = {}
  /\ sb_src = "none"
  /\ sb_call = NoCall
  /\ fade_arg = <<>>
  /\ buffers = [h \in BufferHandles |-> 0]
  /\ shared = [o \in SharedObjects |-> [refcount |-> 0, st |-> "unused"]]
  /\ rel = [h \in BufferHandles |-> NoRelease]
  /\ mix_idx = [o \in Sources |-> -1]
  /\ updated = FALSE

\* ------------------------------------------------- registry (under lock)
\* The registry is the record [snd, fl, np, rc] of the voice table, the free
\* list, number_playing and the reference counts.  Slot idx of the code is
\* element idx + 1 of the sequence snd.
Registry == [snd |-> sounds, fl |-> free_list, np |-> number_playing,
             rc |-> refcount]

SetRegistry(r) ==
  /\ sounds' = r.snd
  /\ free_list' = r.fl
  /\ number_playing' = r.np
  /\ refcount' = r.rc

\* findFreeChannel_locked: the registry afterwards and the index returned
findFreeChannel_lockedReuseUncounted(r) ==
  IF r.fl # <<>>
    THEN [idx |-> r.fl[Len(r.fl)],
          reg |-> [r EXCEPT !.fl = SubSeq(r.fl, 1, Len(r.fl) - 1)]]
    ELSE [idx |-> Len(r.snd),
          reg |-> [r EXCEPT !.np = @ + 1, !.snd = Append(r.snd, FreedSlot)]]
findFreeChannel_locked(r) ==
  IF r.fl # <<>>
    THEN [idx |-> r.fl[Len(r.fl)],
          reg |-> [r EXCEPT !.np = @ + 1,
                            !.fl = SubSeq(r.fl, 1, Len(r.fl) - 1)]]
    ELSE [idx |-> Len(r.snd),
          reg |-> [r EXCEPT !.np = @ + 1, !.snd = Append(r.snd, FreedSlot)]]

\* freeChannel_locked(idx, sound)
freeChannel_lockedKeepsVoice(r, idx) ==
  [r EXCEPT !.fl = Append(r.fl, idx), !.np = @ - 1]
freeChannel_locked(r, idx) ==
  [snd |-> [r.snd EXCEPT ![idx + 1] = release(@)],
   fl |-> Append(r.fl, idx),
   np |-> r.np - 1,
   rc |-> releaseRef(r.rc, r.snd[idx + 1])]

\* haltChannel_locked(c)
haltChannel_lockedKeeps(r, c) == r
haltChannel_lockedAnyId(r, c) ==
  IF r.snd[c.idx + 1].tag # "InvalidType"
    THEN freeChannel_locked(r, c.idx)
    ELSE r
haltChannel_locked(r, c) ==
  IF r.snd[c.idx + 1].id = c.id /\ r.snd[c.idx + 1].tag # "InvalidType"
    THEN freeChannel_locked(r, c.idx)
    ELSE r

\* fadeoutChannel_locked(c, fade_secs)
fadeoutChannel_lockedFrees(r, c, fade_secs) ==
  IF r.snd[c.idx + 1].id = c.id /\ r.snd[c.idx + 1].tag # "InvalidType"
    THEN freeChannel_locked(r, c.idx)
    ELSE r
fadeoutChannel_locked(r, c, fade_secs) ==
  IF r.snd[c.idx + 1].id = c.id /\ r.snd[c.idx + 1].tag # "InvalidType"
    THEN [r EXCEPT !.snd[c.idx + 1] = setFadeout(@, fade_secs)]
    ELSE r

\* The channel functions as functions of the registry: the registry they
\* leave (Reg) and, for those that return something, the value (Ret).
haltReg(r, c) ==
  IF KameMix_isChannelSet(c) THEN haltChannel_locked(r, c) ELSE r

fadeoutReg(r, c, fade_secs) ==
  IF KameMix_isChannelSet(c) THEN fadeoutChannel_locked(r, c, fade_secs) ELSE r

pauseRegAtOnce(r, c) ==
  IF KameMix_isChannelSet(c) /\ c.id = r.snd[c.idx + 1].id
     /\ (isPlaying(r.snd[c.idx + 1]) \/ isUnpausing(r.snd[c.idx + 1]))
    THEN [r EXCEPT !.snd[c.idx + 1].state = "PausedState"]
    ELSE r
pauseReg(r, c) ==
  IF KameMix_isChannelSet(c) /\ c.id = r.snd[c.idx + 1].id
    THEN IF isPlaying(r.snd[c.idx + 1])
           THEN [r EXCEPT !.snd[c.idx + 1].state = "PausingState"]
         ELSE IF isUnpausing(r.snd[c.idx + 1])
           THEN [r EXCEPT !.snd[c.idx + 1].state = "PausedState"]
         ELSE r
    ELSE r

unpauseRegRestarts(r, c) ==
  IF KameMix_isChannelSet(c) /\ c.id = r.snd[c.idx + 1].id
    THEN IF isPausing(r.snd[c.idx + 1])
           THEN [r EXCEPT !.snd[c.idx + 1].state = "PlayingState"]
           ELSE [r EXCEPT !.snd[c.idx + 1].state = "UnpausingState"]
    ELSE r
unpauseReg(r, c) ==
  IF KameMix_isChannelSet(c) /\ c.id = r.snd[c.idx + 1].id
    THEN IF isPaused(r.snd[c.idx + 1])
           THEN [r EXCEPT !.snd[c.idx + 1].state = "UnpausingState"]
         ELSE IF isPausing(r.snd[c.idx + 1])
           THEN [r EXCEPT !.snd[c.idx + 1].state = "PlayingState"]
         ELSE r
    ELSE r

setLoopCountReg(r, c, loops) ==
  IF KameMix_isChannelSet(c) /\ r.snd[c.idx + 1].id = c.id
    THEN [r EXCEPT !.snd[c.idx + 1].loop_count = loops] ELSE r
setLoopCountRet(r, c, loops) ==
  IF KameMix_isChannelSet(c) /\ r.snd[c.idx + 1].id = c.id
    THEN c ELSE nullChannel

setVolumeRegApplied(r, c, volume) ==
  IF KameMix_isChannelSet(c) /\ r.snd[c.idx + 1].id = c.id
    THEN [r EXCEPT !.snd[c.idx + 1].lvolume = volume] ELSE r
setVolumeReg(r, c, volume) ==
  IF KameMix_isChannelSet(c) /\ r.snd[c.idx + 1].id = c.id
    THEN [r EXCEPT !.snd[c.idx + 1].new_volume = volume] ELSE r
setVolumeRet(r, c, volume) ==
  IF KameMix_isChannelSet(c) /\ r.snd[c.idx + 1].id = c.id
    THEN c ELSE nullChannel

KameMix_getVolume(r, c) ==
  IF KameMix_isChannelSet(c) /\ r.snd[c.idx + 1].id = c.id
    THEN r.snd[c.idx + 1].new_volume ELSE 1

KameMix_getLoopCount(r, c) ==
  IF KameMix_isChannelSet(c) /\ r.snd[c.idx + 1].id = c.id
    THEN r.snd[c.idx + 1].loop_count ELSE 0

KameMix_isPlaying(r, c) ==
  IF KameMix_isChannelSet(c) /\ r.snd[c.idx + 1].id = c.id
     /\ (isPlaying(r.snd[c.idx + 1]) \/ isUnpausing(r.snd[c.idx + 1]))
    THEN 1 ELSE 0

KameMix_isPaused(r, c) ==
  IF KameMix_isChannelSet(c) /\ r.snd[c.idx + 1].id = c.id
     /\ (isPaused(r.snd[c.idx + 1]) \/ isPausing(r.snd[c.idx + 1]))
    THEN 1 ELSE 0

KameMix_isFinished(r, c) ==
  IF KameMix_isChannelSet(c) /\ r.snd[c.idx + 1].id = c.id
    THEN (IF isFinished(r.snd[c.idx + 1]) THEN 1 ELSE 0)
    ELSE 1

KameMix_numberPlaying(r) == r.np

\* KameMix_playSound: the registry afterwards and the channel returned
playSoundReg(r, id, src, c, start, loops, vol, fade_secs, paused) ==
  LET r1 == IF KameMix_isChannelSet(c)
              THEN fadeoutChannel_locked(r, c, -1) ELSE r
      f == findFreeChannel_locked(r1)
      byte_pos == soundTimeToBytePos(src, start)
  IN [reg |-> [f.reg EXCEPT
                 !.snd[f.idx + 1] = NewPlayingSound(src, loops, byte_pos,
                                       paused, fade_secs, vol, id),
                 !.rc[src] = @ + 1],
      ret |-> [idx |-> f.idx, id |-> id]]

\* --------------------------------------------------------- host actions
Callback == <<cb_pc, cb_i, cb_out>>
StreamVars == <<sdata, m2, read_tasks, host_pc, host_args, stream_ch,
               assert_on, aborted>>
LockVars == <<lk_held, lk_pc>>
Hist == <<rep, unmixed, freed>>
RefVars == <<buffers, shared, rel>>
MixVars == <<mix_idx, updated>>
Api == <<sb_src, sb_call, fade_arg, RefVars, MixVars>>

\* the ids of the voices in the table
Live(r) == {r.snd[k].id : k \in 1..Len(r.snd)} \ {0}
\* a ghost function restricted to the voices in the table
Prune(f, r) == [k \in DOMAIN f \cap Live(r) |-> f[k]]
\* the ids of the voices whose slots a step from r to r2 pushed on free_list
Freed(r, r2) == {r.snd[r2.fl[k] + 1].id : k \in (Len(r.fl) + 1)..Len(r2.fl)}

KameMix_halt(c) ==
  /\ SetRegistry(haltReg(Registry, c))
  /\ halted' = halted \cup Freed(Registry, haltReg(Registry, c))
  /\ gh' = Touch(gh, c)
  /\ rep' = Prune(rep, haltReg(Registry, c))
  /\ unmixed' = Prune(unmixed, haltReg(Registry, c))
  /\ UNCHANGED <<next_id, Callback, cb_freed, cb_track, fo, StreamVars, LockVars, Api, freed>>

\* KameMix_stop(c) is KameMix_fadeout(c, -1)
KameMix_fadeout(c, fade_secs) ==
  /\ SetRegistry(fadeoutReg(Registry, c, fade_secs))
  /\ fo' = IF fade_secs > 0 /\ c.id \in Live(Registry)
             THEN (c.id :> [f |-> fade_secs, n |-> 0, last |-> NoGain,
                            ok |-> TRUE]) @@ fo
             ELSE Forget(fo, c.id)
  /\ gh' = Touch(gh, c)
  /\ UNCHANGED <<next_id, Callback, halted, cb_freed, cb_track, StreamVars, LockVars, Api, Hist>>

KameMix_pause(c) ==
  /\ SetRegistry(pauseReg(Registry, c))
  /\ UNCHANGED <<next_id, Callback, halted, cb_freed, cb_track, gh, fo, StreamVars, LockVars, Api, Hist>>

KameMix_unpause(c) ==
  /\ SetRegistry(unpauseReg(Registry, c))
  /\ UNCHANGED <<next_id, Callback, halted, cb_freed, cb_track, gh, fo, StreamVars, LockVars, Api, Hist>>

KameMix_setLoopCount(c, loops) ==
  /\ SetRegistry(setLoopCountReg(Registry, c, loops))
  /\ gh' = Touch(gh, c)
  /\ UNCHANGED <<next_id, Callback, halted, cb_freed, cb_track, fo, StreamVars, LockVars, Api, Hist>>

KameMix_setVolume(c, volume) ==
  /\ SetRegistry(setVolumeReg(Registry, c, volume))
  /\ UNCHANGED <<next_id, Callback, halted, cb_freed, cb_track, gh, fo, StreamVars, LockVars, Api, Hist>>

KameMix_playSound(src, c, start, loops, vol, fade_secs, paused) ==
  LET p == playSoundReg(Registry, next_id, src, c, start, loops, vol,
                        fade_secs, paused)
  IN /\ SetRegistry(p.reg)
     /\ next_id' = next_id + 1
     /\ gh' = [Touch(gh, c) EXCEPT ![next_id] =
                 NewGhost(p.ret.idx, loops, SoundSize(src),
                          soundTimeToBytePos(src, start))]
     /\ cb_track' = IF cb_pc = "mix"
                      THEN [cb_track EXCEPT
                             !.new = @ \cup {[id |-> next_id, at_i |-> cb_i]}]
                      ELSE cb_track
     /\ fo' = Forget(fo, c.id)
     /\ rep' = IF c.id \in Live(Registry) THEN (c.id :> 0) @@ rep ELSE rep
     /\ unmixed' = IF paused THEN unmixed ELSE (next_id :> 0) @@ unmixed
     /\ fade_arg' = (next_id :> fade_secs) @@ fade_arg
     /\ UNCHANGED <<Callback, halted, cb_freed, StreamVars, LockVars, freed,
                    sb_src, sb_call, RefVars, MixVars>>

\* ------------------------------------------------------------- streams
\* the voice of KameMix_playStream is created (audio_mutex is held)
PlayStreamVoice(r, byte_pos, loops) ==
  LET f == findFreeChannel_locked(r)
      r1 == [f.reg EXCEPT
               !.snd[f.idx + 1] =
                  NewPlayingStream(loops, byte_pos, FALSE, 0, 1, next_id),
               !.rc["stream"] = @ + 1]
  IN /\ SetRegistry(r1)
     /\ next_id' = next_id + 1
     /\ stream_ch' = [idx |-> f.idx, id |-> next_id]
     /\ gh' = [Touch(gh, stream_ch) EXCEPT ![next_id] =
                 NewGhost(f.idx, loops, sdata.total,
                          StreamOffset(sdata, byte_pos))]
     /\ cb_track' = IF cb_pc = "mix"
                      THEN [cb_track EXCEPT
                             !.new = @ \cup {[id |-> next_id, at_i |-> cb_i]}]
                      ELSE cb_track
     /\ rep' = Prune(rep, r)
     /\ unmixed' = (next_id :> 0) @@ Prune(unmixed, r)

\* KameMix_playStream(stream, c, start, loops, ...) with c the channel the
\* host got from its previous call (KameMix.h: a stream is played once at a
\* time), up to the return or to guard.unlock() before setPos
KameMix_playStream(start, loops) ==
  LET c == stream_ch
      r1 == IF KameMix_isChannelSet(c) THEN haltChannel_locked(Registry, c)
            ELSE Registry
      start1 == IF start < 0 \/ start >= totalTime(sdata) THEN 0 ELSE start
      byte_pos == IF start = 0 THEN startPos(sdata) ELSE getPos(sdata, start1)
  IN /\ host_pc = "idle"
     /\ halted' = halted \cup Freed(Registry, r1)
     /\ IF byte_pos = -1
          THEN /\ SetRegistry(r1)
               /\ host_pc' = "seek"
               /\ host_args' = [start |-> start1, loops |-> loops]
               /\ gh' = Touch(gh, c)
               /\ rep' = Prune(rep, r1)
               /\ unmixed' = Prune(unmixed, r1)
               /\ UNCHANGED <<next_id, stream_ch, cb_track>>
          ELSE /\ PlayStreamVoice(r1, byte_pos, loops)
               /\ UNCHANGED <<host_pc, host_args>>
     /\ UNCHANGED <<Callback, cb_freed, fo, sdata, m2, read_tasks, assert_on,
                    aborted, LockVars, Api, freed>>

\* buffer.setPos(start, true), which waits for mutex2; then streamReadMore,
\* or the return of an unset channel when the seek or the read failed
PlayStreamSeek(ok) ==
  LET sp == setPos(sdata, host_args.start, ok)
  IN /\ host_pc = "seek"
     /\ sdata.fully_buffered \/ m2 = "none"
     /\ sdata' = sp.st
     /\ IF sp.ret
          THEN /\ read_tasks' = read_tasks + 1
               /\ refcount' = incStreamRef(refcount, 1)
               /\ host_pc' = "relock"
               /\ UNCHANGED <<stream_ch, host_args>>
          ELSE /\ stream_ch' = nullChannel
               /\ host_pc' = "idle"
               /\ host_args' = NoArgs
               /\ UNCHANGED <<read_tasks, refcount>>
     /\ UNCHANGED <<sounds, free_list, number_playing, next_id,
                    Callback, halted, cb_freed, cb_track, gh, fo, m2,
                    assert_on, aborted, LockVars, Api, Hist>>

\* guard.lock() and the creation of the voice at byte_pos 0
PlayStreamRelock ==
  /\ host_pc = "relock"
  /\ PlayStreamVoice(Registry, 0, host_args.loops)
  /\ host_pc' = "idle"
  /\ host_args' = NoArgs
  /\ UNCHANGED <<Callback, halted, cb_freed, fo, sdata, m2, read_tasks,
                 assert_on, aborted, LockVars, Api, freed>>

\* A detached readMore thread (streamReadMore).  It returns at once when the
\* stream is fully buffered and, once it holds mutex2, when the secondary
\* has data or the last read failed.  At its end it gives up its reference.
ReadMoreReturn ==
  /\ read_tasks > 0
  /\ \/ sdata.fully_buffered
     \/ m2 = "none" /\ (sdata.size2 > 0 \/ sdata.error)
  /\ read_tasks' = read_tasks - 1
  /\ refcount' = freeRef(refcount, "stream")
  /\ UNCHANGED <<sounds, free_list, number_playing, next_id,
                 Callback, halted, cb_freed, cb_track, gh, fo, sdata, m2,
                 host_pc, host_args, stream_ch, assert_on, aborted,
                 LockVars, Api, Hist>>

\* the thread takes mutex2 and starts to read from the file
ReadMoreLockAnyway ==
  /\ read_tasks > 0
  /\ ~sdata.fully_buffered /\ m2 = "none"
  /\ read_tasks' = read_tasks - 1
  /\ m2' = "dec"
  /\ UNCHANGED <<sounds, free_list, number_playing, refcount, next_id,
                 Callback, halted, cb_freed, cb_track, gh, fo, sdata,
                 host_pc, host_args, stream_ch, assert_on, aborted,
                 LockVars, Api, Hist>>
ReadMoreLock ==
  /\ read_tasks > 0
  /\ ~sdata.fully_buffered /\ m2 = "none"
  /\ sdata.size2 = 0 /\ ~sdata.error
  /\ read_tasks' = read_tasks - 1
  /\ m2' = "dec"
  /\ UNCHANGED <<sounds, free_list, number_playing, refcount, next_id,
                 Callback, halted, cb_freed, cb_track, gh, fo, sdata,
                 host_pc, host_args, stream_ch, assert_on, aborted,
                 LockVars, Api, Hist>>

\* the read ends, with data (ok) or with an error, and mutex2 is released
ReadMoreDone(ok) ==
  /\ m2 = "dec"
  /\ sdata' = readMoreFill(sdata, ok)
  /\ m2' = "none"
  /\ refcount' = freeRef(refcount, "stream")
  /\ UNCHANGED <<sounds, free_list, number_playing, next_id,
                 Callback, halted, cb_freed, cb_track, gh, fo, read_tasks,
                 host_pc, host_args, stream_ch, assert_on, aborted,
                 LockVars, Api, Hist>>

\* The user frees a loaded stream or sound (and does not use it afterwards).
KameMix_freeStream ==
  /\ host_pc = "idle"
  /\ "stream" \notin freed
  /\ refcount' = freeRef(refcount, "stream")
  /\ freed' = freed \cup {"stream"}
  /\ UNCHANGED <<sounds, free_list, number_playing, next_id, Callback, halted,
                 cb_freed, cb_track, gh, fo, StreamVars, LockVars, Api, rep,
                 unmixed>>

KameMix_freeSound(src) ==
  /\ src \notin freed
  /\ refcount' = freeRef(refcount, src)
  /\ freed' = freed \cup {src}
  /\ UNCHANGED <<sounds, free_list, number_playing, next_id, Callback, halted,
                 cb_freed, cb_track, gh, fo, StreamVars, LockVars, Api, rep,
                 unmixed>>

\* ---------------------------------------------------------- lock steps
ModelVars == <<sounds, free_list, number_playing, next_id, refcount,
               Callback, halted, cb_freed, cb_track, gh, fo, StreamVars,
               Hist, Api>>
Holders(l) == {t \in Threads : \E k \in 1..Len(lk_held[t]) : lk_held[t][k] = l}
Instr(t) == lk_pc[t].path[lk_pc[t].i]
Running(t) == lk_pc[t].path # <<>>
\* the position n operations on, or Idle at the end of the path
Advance(t, n) ==
  IF lk_pc[t].i + n > Len(lk_pc[t].path) THEN Idle
  ELSE [lk_pc[t] EXCEPT !.i = @ + n]
Without(held, l) == SelectSeq(held, LAMBDA x : x # l)

\* thread t enters a call
LockStart(t) ==
  /\ ~Running(t)
  /\ \E p \in ThreadPaths(t) : lk_pc' = [lk_pc EXCEPT ![t] = [path |-> p, i |-> 1]]
  /\ UNCHANGED <<ModelVars, lk_held>>

\* mutex.lock(), lock_guard: waits until the lock is free
LockAcquire(t) ==
  /\ Running(t) /\ Instr(t).op = "lock"
  /\ Holders(Instr(t).l) = {}
  /\ lk_held' = [lk_held EXCEPT ![t] = Append(@, Instr(t).l)]
  /\ lk_pc' = [lk_pc EXCEPT ![t] = Advance(t, 1)]
  /\ UNCHANGED ModelVars

\* unique_lock with try_to_lock: never waits
LockTry(t) ==
  /\ Running(t) /\ Instr(t).op = "try"
  /\ IF Holders(Instr(t).l) = {}
       THEN /\ lk_held' = [lk_held EXCEPT ![t] = Append(@, Instr(t).l)]
            /\ lk_pc' = [lk_pc EXCEPT ![t] = Advance(t, 1)]
       ELSE /\ lk_pc' = [lk_pc EXCEPT ![t] = Advance(t, Instr(t).skip + 1)]
            /\ UNCHANGED lk_held
  /\ UNCHANGED ModelVars

LockRelease(t) ==
  /\ Running(t) /\ Instr(t).op = "unlock"
  /\ lk_held' = [lk_held EXCEPT ![t] = Without(@, Instr(t).l)]
  /\ lk_pc' = [lk_pc EXCEPT ![t] = Advance(t, 1)]
  /\ UNCHANGED ModelVars

\* thread t enters a call that uses the voice table
UseStart(t) ==
  /\ ~Running(t)
  /\ \E p \in UsePaths(t) : lk_pc' = [lk_pc EXCEPT ![t] = [path |-> p, i |-> 1]]
  /\ UNCHANGED <<ModelVars, lk_held>>

\* thread t reads or writes the voice table, or works on its local data
UseStep(t) ==
  /\ Running(t) /\ Instr(t).op \in {"use", "local"}
  /\ lk_pc' = [lk_pc EXCEPT ![t] = Advance(t, 1)]
  /\ UNCHANGED <<ModelVars, lk_held>>

\* ------------------------------------------------------- audioCallback
\* Every section of the callback that owns audio_mutex is one step: from a
\* guard.lock() to the next guard.unlock() (a voice was copied, cb_pc becomes
\* "mix") or to the end of the loop (cb_pc becomes "idle").  Host calls take
\* audio_mutex for their whole body, so they interleave only between steps.

\* the first slot at or after i that the loop does not skip, or Len(sounds)
\* when there is none; the condition i < sounds->size() is re-read each time
RECURSIVE NextAudible(_)
NextAudibleStopsAtGap(i) ==
  IF i < Len(sounds)
     /\ (isPlaying(sounds[i + 1]) \/ isPauseChanging(sounds[i + 1]))
    THEN i ELSE Len(sounds)
NextAudible(i) ==
  IF i >= Len(sounds) THEN Len(sounds)
  ELSE IF isPlaying(sounds[i + 1]) \/ isPauseChanging(sounds[i + 1]) THEN i
  ELSE NextAudible(i + 1)

\* the body of the loop for a voice: copySound or copyStream by its tag
CbCopy(sound) ==
  IF sound.tag = "SoundType"
    THEN LET cs == copySound(sound, audio_tmp_buf_len)
         IN [s |-> cs.s, st |-> sdata, tasks |-> read_tasks, abort |-> FALSE,
             acc |-> [total |-> cs.total, reads |-> cs.reads,
                      used |-> cs.used, swap |-> "none", fin |-> FALSE,
                      segs |-> <<>>, swaps |-> <<>>]]
    ELSE copyStream(sound, sdata, m2 # "none", read_tasks, assert_on,
                    audio_tmp_buf_len)

\* then, for slot j and the result cp of the copy: the references of the
\* readMore threads the copy detached, getVolumeData, and freeChannel_locked
\* when the voice finished
CbVoice(r, j, cp) ==
  LET sound == r.snd[j + 1]
      vd == getVolumeData(cp.s)
      r1 == [r EXCEPT !.snd[j + 1] = vd.s,
                      !.rc = incStreamRef(@, cp.tasks - read_tasks)]
  IN [reg |-> IF isFinished(vd.s) THEN freeChannel_locked(r1, j) ELSE r1,
      st |-> cp.st, tasks |-> cp.tasks, abort |-> cp.abort,
      used |-> cp.acc.used,
      out |-> [id |-> sound.id, copied |-> cp.acc.total,
               reads |-> cp.acc.reads, swap |-> cp.acc.swap,
               fin |-> cp.acc.fin, segs |-> cp.acc.segs,
               swaps |-> cp.acc.swaps,
               vol |-> vd.vol, lfade |-> vd.lfade, efade |-> vd.efade]]

\* the record of a fade-out after a block was mixed with the ramp of out
Mixed(rec, out) ==
  LET start == FMul(out.vol, out.lfade)
      end == FMul(out.vol, out.efade)
  IN [rec EXCEPT !.last = end,
                 !.ok = /\ @
                        /\ rec.last = NoGain \/ FLe(start, rec.last)
                        /\ FLe(end, start)
                        /\ FLe(Zero, end)]

\* the loop from index i on, up to guard.unlock() or the end of the loop;
\* t, f0 and h0 are the bookkeeping of this callback.  A failed assertion ends
\* the process inside the step.
CbScan(i, t, f0, h0) ==
  \E j \in {NextAudible(i)} :
     IF j >= Len(sounds)
       THEN \* loop done: clamp and return
            /\ cb_pc' = "idle"
            /\ cb_i' = 0
            /\ cb_out' = NoOut
            /\ cb_track' = NoTrack
            /\ fo' = f0
            /\ rep' = h0.rep
            /\ unmixed' = h0.unmixed
            /\ UNCHANGED <<sounds, free_list, number_playing, refcount,
                           cb_freed, gh, sdata, read_tasks, aborted>>
       ELSE \E cp \in {CbCopy(sounds[j + 1])} :
            \E v \in {CbVoice(Registry, j, cp)} :
               /\ SetRegistry(v.reg)
               /\ cb_out' = v.out
               /\ cb_pc' = "mix"
               /\ cb_i' = j
               /\ cb_track' = [t EXCEPT !.seen = @ \cup {v.out.id}]
               /\ cb_freed' = cb_freed \cup Freed(Registry, v.reg)
               /\ fo' = IF v.out.id \in DOMAIN f0
                          THEN [f0 EXCEPT ![v.out.id] = Mixed(@, v.out)]
                          ELSE f0
               /\ gh' = Played(gh, v.out.id, v.used,
                               v.out.swap = "StreamError")
               /\ sdata' = v.st
               /\ read_tasks' = v.tasks
               /\ aborted' = v.abort
               /\ rep' = Prune(h0.rep, v.reg)
               /\ unmixed' = Prune([k \in DOMAIN h0.unmixed \ {v.out.id} |->
                                      h0.unmixed[k]], v.reg)

\* the callback is entered: output zeroed, audio_mutex taken, loop from 0
CbBegin ==
  /\ cb_pc = "idle"
  /\ CbScan(0, [n0 |-> Len(sounds),
                live0 |-> {sounds[k].id : k \in
                             {n \in 1..Len(sounds) :
                                isPlaying(sounds[n]) \/ isPauseChanging(sounds[n])}},
                new |-> {}, seen |-> {}],
            [id \in DOMAIN fo |->
               IF id \in Live(Registry)
                 THEN [fo[id] EXCEPT !.n = Min(@ + 1, FadeoutCallbacks(fo[id].f))]
                 ELSE fo[id]],
            [rep |-> [id \in DOMAIN rep |-> Min(rep[id] + 1, 2)],
             unmixed |-> [id \in DOMAIN unmixed |-> 1]])
  /\ UNCHANGED <<next_id, halted, m2, host_pc, host_args, stream_ch,
                 assert_on, LockVars, Api, freed>>

\* applyVolume and mixStream on the scratch buffer, guard.lock(), ++i
CbMix ==
  /\ cb_pc = "mix"
  /\ CbScan(cb_i + 1, cb_track, fo,
            [rep |-> rep, unmixed |-> unmixed])
  /\ UNCHANGED <<next_id, halted, m2, host_pc, host_args, stream_ch,
                 assert_on, LockVars, Api, freed>>

\* ------------------------------------------------------------------ Next
\* The registry: static voices played from offset 0, halted, stopped and
\* replaced; slots are reused.
NextReg ==
  \/ /\ next_id <= MaxPlays
     /\ \E c \in Channels, loops \in {-1, 0} :
          KameMix_playSound("stereo", c, 0, loops, 1, 0, FALSE)
  \/ \E c \in Channels : KameMix_halt(c)
  \/ \E c \in Channels : KameMix_fadeout(c, -1)
  \/ CbBegin
  \/ CbMix

SpecReg == Init /\ [][NextReg]_vars

\* Fades and pauses: voices that loop for ever, created playing or paused,
\* with or without a fade-in, then paused, unpaused, stopped and faded out.
NextFade ==
  \/ /\ next_id <= MaxFadePlays
     /\ \E fade \in FadeInSet, paused \in BOOLEAN :
          KameMix_playSound("tone", nullChannel, 0, -1, 1, fade, paused)
  \/ \E c \in Channels, f \in FadeOutSet : KameMix_fadeout(c, f)
  \/ \E c \in Channels : KameMix_pause(c)
  \/ \E c \in Channels : KameMix_unpause(c)
  \/ CbBegin
  \/ CbMix

SpecFade == Init /\ [][NextFade]_vars

\* The fade_secs argument of play: voices created playing or paused with a
\* negative, zero or short fade-in, then paused, unpaused and stopped.
NextPlay ==
  \/ /\ next_id <= MaxFadePlays
     /\ \E src \in {"tone", "mono"}, fade \in PlayFadeSet, paused \in BOOLEAN,
           loops \in {-1, 0} :
          KameMix_playSound(src, nullChannel, 0, loops, 1, fade, paused)
  \/ \E c \in Channels : KameMix_fadeout(c, -1)
  \/ \E c \in Channels : KameMix_pause(c)
  \/ \E c \in Channels : KameMix_unpause(c)
  \/ CbBegin
  \/ CbMix

SpecPlay == Init /\ [][NextPlay]_vars

\* Streams and offsets: one stream, short (fully buffered) or long, in a build
\* with or without assert(); the host plays it from several positions one
\* voice at a time, plays static sounds from several offsets, halts voices and
\* changes loop counts; readMore threads and callbacks interleave.
InitKinds(kinds) ==
  /\ sounds = <<>>
  /\ free_list = <<>>
  /\ number_playing = 0
  /\ next_id = 1
  /\ refcount = incStreamRef([s \in Sources \cup {"stream"} |-> 1], 1)
  /\ cb_pc = "idle"
  /\ cb_i = 0
  /\ cb_out = NoOut
  /\ halted = {}
  /\ cb_freed = {}
  /\ cb_track = NoTrack
  /\ gh = [h \in 1..MaxPlays |-> NoGhost]
  /\ fo = <<>>
  /\ \E kind \in kinds : sdata = loadWAV(kind)
  /\ m2 = "none"
  /\ read_tasks = 1
  /\ host_pc = "idle"
  /\ host_args = NoArgs
  /\ stream_ch = nullChannel
  /\ assert_on \in BOOLEAN
  /\ aborted = FALSE
  /\ lk_held = [t \in Threads |-> <<>>]
  /\ lk_pc = [t \in Threads |-> Idle]
  /\ rep = <<>>
  /\ unmixed = <<>>
  /\ freed = {}
  /\ sb_src = "none"
  /\ sb_call = NoCall
  /\ fade_arg = <<>>
  /\ buffers = [h \in BufferHandles |-> 0]
  /\ shared = [o \in SharedObjects |-> [refcount |-> 0, st |-> "unused"]]
  /\ rel = [h \in BufferHandles |-> NoRelease]
  /\ mix_idx = [o \in Sources |-> -1]
  /\ updated = FALSE

InitStream == InitKinds(StreamKinds)

NextStream ==
  \/ /\ ~aborted /\ next_id <= MaxStreamPlays
     /\ \E start \in StreamStartSet, loops \in LoopSet :
          KameMix_playStream(start, loops)
  \/ ~aborted /\ \E ok \in BOOLEAN : PlayStreamSeek(ok)
  \/ ~aborted /\ PlayStreamRelock
  \/ /\ ~aborted /\ next_id <= MaxStreamPlays /\ host_pc = "idle"
     /\ \E src \in {"stereo", "mono"}, start \in StartSet, loops \in LoopSet :
          KameMix_playSound(src, nullChannel, start, loops, 1, 0, FALSE)
  \/ ~aborted /\ host_pc = "idle" /\ \E c \in Channels : KameMix_halt(c)
  \/ ~aborted /\ host_pc = "idle" /\ KameMix_setLoopCount(stream_ch, 0)
  \/ ~aborted /\ ReadMoreReturn
  \/ ~aborted /\ ReadMoreLock
  \/ ~aborted /\ \E ok \in BOOLEAN : ReadMoreDone(ok)
  \/ ~aborted /\ CbBegin
  \/ ~aborted /\ CbMix

SpecStream == InitStream /\ [][NextStream]_vars
\* the same with the readMore threads and the device's callback scheduled
\* again and again while the process runs: a detached std::thread runs, the
\* device calls the callback for every period.  Nothing is assumed of the
\* host.
SpecStreamLive ==
  /\ SpecStream
  /\ WF_vars(~aborted /\ ReadMoreReturn)
  /\ WF_vars(~aborted /\ ReadMoreLock)
  /\ WF_vars(~aborted /\ \E ok \in BOOLEAN : ReadMoreDone(ok))
  /\ WF_vars(~aborted /\ CbBegin)
  /\ WF_vars(~aborted /\ CbMix)

\* Loops of a stream: a long stream or one that decodes to less than a
\* buffer without being fully buffered, so that a buffer can begin at the
\* end of the stream (end_pos = 0); the host plays it with a loop count,
\* one voice at a time, while readMore threads and callbacks interleave.
LoopCountSet == {0, 1, 2}
InitLoop == InitKinds(ResampledKinds) /\ ~assert_on

NextLoop ==
  \/ /\ next_id <= MaxStreamPlays
     /\ \E start \in StreamStartSet, loops \in LoopCountSet :
          KameMix_playStream(start, loops)
  \/ \E ok \in BOOLEAN : PlayStreamSeek(ok)
  \/ PlayStreamRelock
  \/ ReadMoreReturn
  \/ ReadMoreLock
  \/ \E ok \in BOOLEAN : ReadMoreDone(ok)
  \/ CbBegin
  \/ CbMix

SpecLoop == InitLoop /\ [][NextLoop]_vars
\* the same with the threads and the callback scheduled again and again
SpecLoopLive ==
  /\ SpecLoop
  /\ WF_vars(ReadMoreReturn) /\ WF_vars(ReadMoreLock)
  /\ WF_vars(\E ok \in BOOLEAN : ReadMoreDone(ok))
  /\ WF_vars(CbBegin) /\ WF_vars(CbMix)

\* Locks: the audio thread, two host threads and a readMore thread, each
\* making its calls one after the other.
NextLock ==
  \/ \E t \in Threads : LockStart(t)
  \/ \E t \in Threads : LockAcquire(t)
  \/ \E t \in Threads : LockTry(t)
  \/ \E t \in Threads : LockRelease(t)

SpecLock == Init /\ [][NextLock]_vars

\* ---------------------------------------------------------- AudioSystem
\* The mixer with update(): the table is a vector, a play appends a voice
\* and stores its index in the object's mix_idx, halt marks the voice
\* Stopped and unsets mix_idx, and update removes the Finished and Stopped
\* voices by moving the last voice into their place.
MixOther ==
  <<free_list, number_playing, next_id, refcount, Callback, halted,
    cb_freed, cb_track, gh, fo, StreamVars, LockVars, Hist, sb_src, sb_call,
    fade_arg, RefVars>>

makePlayingSound(o, fade) ==
  [tag |-> "SoundType", src |-> o, state |-> "PlayingState", fadeout |-> fade]
isStopped(ps) == ps.state = "StoppedState"

\* AudioSystem::removeSound(sound, idx, fade_secs): [tab, mi]
removeSound(tab, mi, o, fade_secs) ==
  IF fade_secs = 0
    THEN [tab |-> [tab EXCEPT ![mi[o] + 1].state = "StoppedState"],
          mi |-> [mi EXCEPT ![o] = -1]]
    ELSE [tab |-> [tab EXCEPT ![mi[o] + 1].fadeout = TRUE], mi |-> mi]
\* Sound::fadeout(fade_secs)
Sound_fadeout(tab, mi, o, fade_secs) ==
  IF mi[o] # -1 THEN removeSound(tab, mi, o, fade_secs)
  ELSE [tab |-> tab, mi |-> mi]

\* AudioSystem::update, from index i on
RECURSIVE updateLoop(_, _, _)
updateLoop(tab, mi, i) ==
  IF i >= Len(tab) THEN [tab |-> tab, mi |-> mi]
  ELSE LET sound == tab[i + 1]
           last == Len(tab) - 1
           back == tab[last + 1]
           mi1 == IF ~isStopped(sound) THEN [mi EXCEPT ![sound.src] = -1]
                  ELSE mi
       IN IF sound.state = "FinishedState" \/ isStopped(sound)
            THEN IF i # last
                   THEN updateLoop(
                          [SubSeq(tab, 1, last) EXCEPT ![i + 1] = back],
                          [mi1 EXCEPT ![back.src] = i], i)
                   ELSE [tab |-> SubSeq(tab, 1, last), mi |-> mi1]
          ELSE updateLoop(tab, mi, i + 1)

\* Sound::fadein: halt(), then AudioSystem::addSound
Sound_play(o) ==
  LET h == Sound_fadeout(sounds, mix_idx, o, 0)
  IN /\ Len(sounds) < MaxPlays
     /\ sounds' = Append(h.tab, makePlayingSound(o, FALSE))
     /\ mix_idx' = [h.mi EXCEPT ![o] = Len(sounds)]
     /\ updated' = FALSE
     /\ UNCHANGED MixOther

\* Sound::halt (fade_secs = 0) and Sound::stop (fade_secs = -1)
Sound_stop(o, fade_secs) ==
  LET h == Sound_fadeout(sounds, mix_idx, o, fade_secs)
  IN /\ mix_idx[o] # -1
     /\ sounds' = h.tab
     /\ mix_idx' = h.mi
     /\ updated' = FALSE
     /\ UNCHANGED MixOther

\* a callback reaches the end of a voice or of its fade-out
CallbackFinishes(k) ==
  /\ sounds[k].state = "PlayingState"
  /\ sounds' = [sounds EXCEPT ![k].state = "FinishedState"]
  /\ updated' = FALSE
  /\ UNCHANGED <<mix_idx, MixOther>>

AudioSystem_update ==
  \E u \in {updateLoop(sounds, mix_idx, 0)} :
     /\ sounds' = u.tab
     /\ mix_idx' = u.mi
     /\ updated' = TRUE
     /\ UNCHANGED MixOther

NextMix ==
  \/ \E o \in Sources : Sound_play(o)
  \/ \E o \in Sources, f \in {0, -1} : Sound_stop(o, f)
  \/ \E k \in 1..Len(sounds) : CallbackFinishes(k)
  \/ AudioSystem_update

SpecMix == Init /\ [][NextMix]_vars

\* The voice table: the audio thread and three host threads, each making
\* its calls one after the other.
NextTable ==
  \/ \E t \in Threads : UseStart(t)
  \/ \E t \in Threads : LockAcquire(t)
  \/ \E t \in Threads : LockRelease(t)
  \/ \E t \in Threads : UseStep(t)

SpecTable == Init /\ [][NextTable]_vars

\* The channel functions: static voices created playing or paused, on a new
\* channel or replacing the voice of one, then halted, stopped, paused,
\* unpaused and given a volume, between the steps of the callbacks.
NextChan ==
  \/ /\ next_id <= MaxChanPlays
     /\ \E c \in Channels, loops \in {-1, 0}, paused \in BOOLEAN :
          KameMix_playSound("tone", c, 0, loops, 1, 0, paused)
  \/ \E c \in Channels : KameMix_halt(c)
  \/ \E c \in Channels : KameMix_fadeout(c, -1)
  \/ \E c \in Channels : KameMix_pause(c)
  \/ \E c \in Channels : KameMix_unpause(c)
  \/ \E c \in Channels, v \in VolSet : KameMix_setVolume(c, v)
  \/ CbBegin
  \/ CbMix

SpecChan == Init /\ [][NextChan]_vars

\* The same with the audio device running: it goes on calling audioCallback,
\* and a callback that has begun goes on to its end (it only waits for
\* audio_mutex, which every host call gives up).  Nothing is assumed of the
\* host.
SpecChanLive == SpecChan /\ WF_vars(CbBegin) /\ WF_vars(CbMix)

\* Lifetimes: the stream and a sound are played once through and freed by the user,
\* who makes no call with an object after freeing it, while voices, readMore
\* threads and callbacks go on.
NextLife ==
  \/ /\ ~aborted /\ next_id <= MaxStreamPlays /\ "stream" \notin freed
     /\ \E start \in {0, 2} :
          KameMix_playStream(start, 0)
  \/ ~aborted /\ \E ok \in BOOLEAN : PlayStreamSeek(ok)
  \/ ~aborted /\ PlayStreamRelock
  \/ /\ ~aborted /\ next_id <= MaxStreamPlays /\ host_pc = "idle"
     /\ "mono" \notin freed
     /\ KameMix_playSound("mono", nullChannel, 0, 0, 1, 0, FALSE)
  \/ ~aborted /\ host_pc = "idle" /\ \E c \in Channels : KameMix_halt(c)
  \/ ~aborted /\ KameMix_freeStream
  \/ ~aborted /\ host_pc = "idle" /\ KameMix_freeSound("mono")
  \/ ~aborted /\ ReadMoreReturn
  \/ ~aborted /\ ReadMoreLock
  \/ ~aborted /\ \E ok \in BOOLEAN : ReadMoreDone(ok)
  \/ ~aborted /\ CbBegin
  \/ ~aborted /\ CbMix

SpecLife == InitStream /\ [][NextLife]_vars

\* A StreamBuffer on its own: a decoder thread calls readMore and
\* setPos(sec, swap_buffers), a consumer thread calls advance, updatePos and
\* swapBuffers.  readMore takes mutex2 (SbReadMoreLock) and holds it until it
\* returns (SbReadMore).
SbReadMoreLock ==
  /\ ~sdata.fully_buffered /\ m2 = "none"
  /\ m2' = "dec"
  /\ UNCHANGED <<sounds, free_list, number_playing, next_id, refcount,
                 Callback, halted, cb_freed, cb_track, gh, fo, sdata,
                 read_tasks, host_pc, host_args, stream_ch, assert_on,
                 aborted, LockVars, Hist, Api>>

SbReadMore(ok) ==
  LET fill == sdata.size2 = 0 /\ ~sdata.error
  IN /\ m2 = "dec"
     /\ sdata' = IF fill THEN readMoreFill(sdata, ok) ELSE sdata
     /\ sb_src' = IF fill THEN IF sdata'.size2 > 0 THEN "readMore" ELSE "none"
                  ELSE sb_src
     /\ m2' = "none"
     /\ UNCHANGED <<sounds, free_list, number_playing, next_id, refcount,
                    Callback, halted, cb_freed, cb_track, gh, fo,
                    read_tasks, host_pc, host_args, stream_ch, assert_on,
                    aborted, LockVars, Hist, sb_call, fade_arg,
                    RefVars, MixVars>>

SbSetPos(sec, swap_buffers, ok) ==
  LET sp == setPosBuffers(sdata, sec, swap_buffers, ok)
  IN /\ sdata.fully_buffered \/ m2 = "none"
     /\ sdata' = sp.st
     /\ sb_src' = IF sdata.fully_buffered THEN sb_src
                  ELSE IF sp.ret /\ ~swap_buffers THEN "setPos" ELSE "none"
     /\ UNCHANGED <<sounds, free_list, number_playing, next_id, refcount,
                    Callback, halted, cb_freed, cb_track, gh, fo, m2,
                    read_tasks, host_pc, host_args, stream_ch, assert_on,
                    aborted, LockVars, Hist, sb_call, fade_arg,
                    RefVars, MixVars>>

\* one of the three swap calls of the consumer
SbSwap(op, sw) ==
  /\ sdata' = sw.st
  /\ sb_call' = [op |-> op, before |-> sdata, after |-> sw.st,
                 src |-> sb_src, held |-> m2 # "none", result |-> sw.result]
  /\ sb_src' = IF sw.st # sdata THEN "none" ELSE sb_src
  /\ UNCHANGED <<sounds, free_list, number_playing, next_id, refcount,
                 Callback, halted, cb_freed, cb_track, gh, fo, m2,
                 read_tasks, host_pc, host_args, stream_ch, assert_on,
                 aborted, LockVars, Hist, fade_arg, RefVars, MixVars>>

SbAdvance == SbSwap("advance", advance(sdata, m2 # "none"))
SbUpdatePos == SbSwap("updatePos", updatePos(sdata, m2 # "none"))
SbSwapBuffers == SbSwap("swapBuffers", swapBuffers(sdata, m2 # "none"))

SeekSet == {-1, 0, 1, 3, 4}

NextBuf ==
  \/ SbReadMoreLock
  \/ \E ok \in BOOLEAN : SbReadMore(ok)
  \/ \E sec \in SeekSet, swap_buffers \in BOOLEAN, ok \in BOOLEAN :
       SbSetPos(sec, swap_buffers, ok)
  \/ SbAdvance
  \/ SbUpdatePos
  \/ SbSwapBuffers

SpecBuf == InitKinds(BufKinds) /\ [][NextBuf]_vars

\* SoundBuffer handles: the host loads a file into a handle, copy-assigns
\* one handle to another and calls release() (the destructor does the same).
\* Nothing is run once freed memory was used.
BufOther ==
  <<sounds, free_list, number_playing, next_id, refcount, Callback, halted,
    cb_freed, cb_track, gh, fo, StreamVars, LockVars, Hist, sb_src, sb_call,
    fade_arg, MixVars>>
HeapIntact(sh) == \A o \in SharedObjects : sh[o].st # "corrupt"

\* SoundBuffer::loadWAV: release(), then, when the file was read (ok), a new
\* SharedData with refcount 1
BufLoad(h, ok) ==
  LET r == SoundBuffer_release(buffers, shared, h)
      o == CHOOSE x \in SharedObjects :
             /\ shared[x].st = "unused"
             /\ \A y \in SharedObjects : shared[y].st = "unused" => x <= y
  IN /\ HeapIntact(shared)
     /\ \E x \in SharedObjects : shared[x].st = "unused"
     /\ IF ok /\ HeapIntact(r.sh)
          THEN /\ buffers' = [r.bs EXCEPT ![h] = o]
               /\ shared' = [r.sh EXCEPT ![o] = [refcount |-> 1, st |-> "live"]]
               /\ rel' = [rel EXCEPT ![h] = NoRelease]
          ELSE /\ buffers' = r.bs
               /\ shared' = r.sh
               /\ rel' = [rel EXCEPT ![h].decs =
                            IF rel[h].called /\ r.dec THEN @ + 1 ELSE @]
     /\ UNCHANGED BufOther

\* operator=(const SoundBuffer &other)
BufAssign(h, other) ==
  LET r == SoundBuffer_release(buffers, shared, h)
      bs1 == [r.bs EXCEPT ![h] = r.bs[other]]
  IN /\ HeapIntact(shared)
     /\ h # other
     /\ IF HeapIntact(r.sh)
          THEN /\ buffers' = bs1
               /\ shared' = incRefCount(bs1, r.sh, h)
               /\ rel' = [rel EXCEPT ![h] = NoRelease]
          ELSE /\ buffers' = r.bs
               /\ shared' = r.sh
               /\ rel' = [rel EXCEPT ![h].decs =
                            IF rel[h].called /\ r.dec THEN @ + 1 ELSE @]
     /\ UNCHANGED BufOther

\* release() called by the host
BufRelease(h) ==
  LET r == SoundBuffer_release(buffers, shared, h)
  IN /\ HeapIntact(shared)
     /\ buffers' = r.bs
     /\ shared' = r.sh
     /\ rel' = [rel EXCEPT ![h] = [called |-> TRUE,
                                   decs |-> IF r.dec THEN @.decs + 1
                                            ELSE @.decs]]
     /\ UNCHANGED BufOther

NextRef ==
  \/ \E h \in BufferHandles, ok \in BOOLEAN : BufLoad(h, ok)
  \/ \E h \in BufferHandles, other \in BufferHandles : BufAssign(h, other)
  \/ \E h \in BufferHandles : BufRelease(h)

SpecRef == Init /\ [][NextRef]_vars

\* ---------------------------------------------------------------- claims
\* a step of the callback that copied a voice (CbBegin or CbMix reaching one)
CbCopied == cb_pc' = "mix" /\ (cb_pc = "idle" \/ cb_i' # cb_i)

\* C1: once halt(c) has returned for a live voice, no section of a callback
\* that runs afterwards copies that voice into the scratch buffer, so nothing
\* of it is mixed by a callback that begins afterwards; this includes a halt
\* issued while a callback is between two voices.
C1_NoCopyAfterHalt == [][CbCopied => cb_out'.id \notin halted]_vars

\* a callback has copied the voice now in a slot that a halted voice held
C1_Witness ==
  /\ cb_pc = "mix"
  /\ cb_out.id # 0
  /\ \E h \in halted : gh[h].idx = cb_i

\* the handles whose voice was retired, by halt or by a callback
Retired == halted \cup cb_freed
StaleChannels == {Handle(h) : h \in Retired} \cup {nullChannel}

\* every channel function given c leaves the registry alone and reports
\* "no such voice"; play given c only adds a voice under a fresh id
StaleNoOp(c) ==
  LET r == Registry
      p == playSoundReg(r, next_id, "stereo", c, 0, 0, 1, 0, FALSE)
  IN /\ c.id \notin Live(r)
     /\ haltReg(r, c) = r
     /\ \A f \in FadeOutSet : fadeoutReg(r, c, f) = r
     /\ pauseReg(r, c) = r
     /\ unpauseReg(r, c) = r
     /\ \A l \in LoopSet : /\ setLoopCountReg(r, c, l) = r
                            /\ setLoopCountRet(r, c, l) = nullChannel
     /\ \A v \in VolSet : /\ setVolumeReg(r, c, v) = r
                           /\ setVolumeRet(r, c, v) = nullChannel
     /\ KameMix_isFinished(r, c) = 1
     /\ KameMix_isPlaying(r, c) = 0
     /\ KameMix_isPaused(r, c) = 0
     /\ p.ret.id \notin Live(r) \cup Retired
     /\ \A k \in 1..Len(r.snd) : r.snd[k].id # 0 => p.reg.snd[k] = r.snd[k]

\* C3: a handle whose voice was retired never resolves to a voice again,
\* also when its slot index is reused: every channel function given the old
\* handle changes nothing, the setters return the unset channel and
\* is_finished returns 1; the same holds for the unset channel, and play
\* given either only creates a new voice.
C3_StaleHandleNoOp == \A c \in StaleChannels : StaleNoOp(c)

\* the slot of a retired handle holds another live voice
C3_Witness ==
  \E h \in Retired : sounds[gh[h].idx + 1].id \notin {0, h}

C2_FadeoutFinishes ==
  \A id \in DOMAIN fo :
    /\ fo[id].ok
    /\ (cb_pc = "idle" /\ fo[id].n >= FadeoutCallbacks(fo[id].f))
         => id \in Retired

\* the channel of the voice the callback copied in its last step
CbChannel == [idx |-> cb_i, id |-> cb_out.id]
StreamVoices == {k \in 1..Len(sounds) : sounds[k].tag = "StreamType"}
StaticVoices == {k \in 1..Len(sounds) : sounds[k].tag = "SoundType"}

\* C6: a swap that a stream voice attempts while the secondary buffer is
\* being filled (StreamNotReady) or holds no data (StreamNoData) returns at
\* once: the callback goes on (no abort), the voice has contributed at most
\* one block and is not made Finished by the failed swap, and it is left at
\* the end of the primary buffer so that its next callback tries the swap
\* again.
C6_FailedSwapRetried ==
  (cb_pc = "mix" /\ cb_out.swap \in {"StreamNotReady", "StreamNoData"}) =>
     /\ ~aborted
     /\ ~cb_out.fin
     /\ cb_out.copied <= audio_tmp_buf_len
     /\ \A k \in StreamVoices :
          sounds[k].id = cb_out.id => sounds[k].buffer_pos = sdata.size

\* C8: when the error flag of the stream is set, no thread holds mutex2 (a
\* readMore thread returns at once, none is stalled), and a callback step in
\* which a stream voice attempts a swap then gets StreamError: the voice is
\* Finished and freed in that step, KameMix_isFinished reports 1 and
\* KameMix_isPlaying 0 for its channel, and the callback does not abort.
C8_ErrorFinishesVoice ==
  [][/\ sdata.error => m2 = "none" /\ sdata.size2 = 0
     /\ (CbCopied /\ sdata.error /\ cb_out'.swap # "none") =>
          /\ cb_out'.swap = "StreamError"
          /\ ~aborted'
          /\ cb_out'.id \in cb_freed'
          /\ KameMix_isFinished(Registry', CbChannel') = 1
          /\ KameMix_isPlaying(Registry', CbChannel') = 0]_vars

\* a stream voice was finished by a decoder or seek error
C8_Witness ==
  /\ cb_pc = "mix" /\ cb_out.swap = "StreamError"
  /\ cb_out.id \in cb_freed
  /\ sdata.error /\ ~aborted

\* C9: every voice's buffer_pos lies in 0..size of the block it reads (its
\* sound, or the primary buffer of its stream), and every range [from, to)
\* of source samples that a callback step read lies within 0..size.
C9_BufferPosInRange ==
  /\ \A k \in StaticVoices :
       sounds[k].buffer_pos \in 0..SoundSize(sounds[k].src)
  /\ \A k \in StreamVoices : sounds[k].buffer_pos \in 0..sdata.size
  /\ \A rd \in cb_out.reads : 0 <= rd[1] /\ rd[1] <= rd[2] /\ rd[2] <= rd[3]

\* a stream voice waits at the end of the primary buffer after a failed swap
\* while a static voice that was started at an offset is part-way through
C9_Witness ==
  /\ \E k \in StreamVoices : sounds[k].buffer_pos = sdata.size
  /\ \E k \in StaticVoices :
       /\ sounds[k].buffer_pos \in 1..(SoundSize(sounds[k].src) - 1)
       /\ gh[sounds[k].id].left % SoundSize(sounds[k].src) # 0
  /\ cb_pc = "mix" /\ cb_out.swap = "StreamNotReady"
  /\ \E rd \in cb_out.reads : rd[1] < rd[2] /\ rd[2] = rd[3]

\* C10: for a voice created with loops = n >= 0 that was not stopped,
\* halted, replaced or given a new loop count (and no decoder error), left
\* counts the samples of (size - start offset) + n * size not yet read: the
\* voice is in the table exactly as long as left > 0, and the callback frees
\* it when left reaches 0.  A voice created with loops = -1 under the same
\* conditions is never freed by the callback.
C10_LoopsPlayed ==
  \A id \in DOMAIN gh :
     (gh[id].idx # -1 /\ ~gh[id].touched) =>
        IF gh[id].loops >= 0
          THEN /\ id \in Live(Registry) <=> gh[id].left > 0
               /\ id \notin Live(Registry) => id \in cb_freed
          ELSE id \in Live(Registry) /\ id \notin cb_freed

\* a static voice and a stream voice with loops = 1 have both played twice
C10_Witness ==
  \E a, b \in DOMAIN gh :
     /\ a # b
     /\ \A id \in {a, b} :
          /\ gh[id].loops = 1 /\ ~gh[id].touched /\ gh[id].left = 0
          /\ id \in cb_freed
     /\ stream_ch.id = a

\* the order of the locks: device, mix mutex, secondary, primary
LockRank(l) ==
  CASE l = "device" -> 1 [] l = "audio_mutex" -> 2 [] l = "mutex2" -> 3
    [] l = "mutex" -> 4
\* thread t waits for a lock that thread u holds
WaitsFor(t, u) ==
  /\ Running(t) /\ Instr(t).op = "lock"
  /\ u \in Holders(Instr(t).l)
RECURSIVE WaitChain(_, _, _)
WaitChain(t, u, n) ==
  \/ WaitsFor(t, u)
  \/ n > 1 /\ \E v \in Threads : WaitsFor(t, v) /\ WaitChain(v, u, n - 1)

\* C7: every thread holds its locks in the order device, audio_mutex,
\* mutex2, mutex (each lock it took ranks above all it held then), no lock
\* has two holders, and no set of threads waits for each other in a cycle.
C7_LockOrder ==
  /\ \A t \in Threads : \A a, b \in 1..Len(lk_held[t]) :
       a < b => LockRank(lk_held[t][a]) < LockRank(lk_held[t][b])
  /\ \A l \in {"device", "audio_mutex", "mutex2", "mutex"} :
       Cardinality(Holders(l)) <= 1
  /\ \A t \in Threads : ~WaitChain(t, t, Cardinality(Threads))

\* the callback holds all four locks while a host thread waits for mutex2
\* inside setPos and the readMore thread waits for it too
C7_Witness ==
  /\ lk_held["callback"] = <<"device", "audio_mutex", "mutex2", "mutex">>
  /\ WaitsFor("host", "callback") /\ Instr("host").l = "mutex2"
  /\ WaitsFor("readMore", "callback")
  /\ WaitsFor("loader", "callback") /\ Instr("loader").l = "device"

\* C11: a voice that play_sound replaced has the minimum-length fade-out and
\* is retired by the time two callbacks that began after the replacing call
\* have ended, so that only the new voice of the object stays in the table.
C11_ReplacedVoiceRetired ==
  \A id \in DOMAIN rep :
    /\ \A k \in 1..Len(sounds) :
         sounds[k].id = id => sounds[k].fade_total = -secs_per_callback
    /\ ~(cb_pc = "idle" /\ rep[id] >= 2)

\* C12: the host gives every play_stream call the channel of its previous
\* one.  At most one voice in the table references the stream, it is the voice
\* of the channel the host holds, and while play_stream has released the mix
\* mutex to seek (and until it has created the new voice) none does.
C12_OneVoicePerStream ==
  /\ Cardinality(StreamVoices) <= 1
  /\ \A k \in StreamVoices : sounds[k].id = stream_ch.id
  /\ host_pc # "idle" => StreamVoices = {}

\* play_stream has halted the voice that a callback in progress had copied,
\* has done its seek and waits for the mix mutex to create the new voice
C12_Witness ==
  /\ host_pc = "relock"
  /\ stream_ch.id \in halted
  /\ cb_pc = "mix" /\ cb_out.id = stream_ch.id
  /\ StreamVoices = {}

\* the voice in slot k stays in the table in this step
Stays(k) == k <= Len(sounds) /\ sounds[k].id # 0 /\ sounds'[k].id = sounds[k].id
SlotChannel(k) == [idx |-> k - 1, id |-> sounds[k].id]
\* this step is the callback copying the voice in slot k
CopiedSlot(k) == CbCopied /\ cb_i' = k - 1
\* this step is pause(c) or unpause(c) on the voice in slot k, and nothing else
PauseCall(k) ==
  /\ sounds' = pauseReg(Registry, SlotChannel(k)).snd
  /\ UNCHANGED <<free_list, number_playing, next_id, Callback>>
UnpauseCall(k) ==
  /\ sounds' = unpauseReg(Registry, SlotChannel(k)).snd
  /\ UNCHANGED <<free_list, number_playing, next_id, Callback>>

RefHolders(src) ==
  (IF src \in freed THEN 0 ELSE 1)
  + Cardinality({k \in 1..Len(sounds) :
                   sounds[k].tag # "InvalidType" /\ sounds[k].src = src})
  + (IF src = "stream" THEN read_tasks + (IF m2 = "dec" THEN 1 ELSE 0) ELSE 0)

\* C14: the reference count of every loaded object equals the number of its
\* holders, so the object is destroyed (count 0) only when the user has freed
\* it and no voice and no readMore thread refers to it, every voice and every
\* readMore thread works on an object that is not destroyed, and a destroyed
\* object is never referred to or released again.
C14_DestroyedOnce ==
  [][\A src \in DOMAIN refcount :
       /\ refcount[src] = RefHolders(src)
       /\ refcount[src] = 0 => refcount'[src] = 0]_vars

\* the user has freed the stream while a readMore thread, the last holder,
\* is reading into its secondary buffer
C14_Witness ==
  /\ "stream" \in freed
  /\ m2 = "dec" /\ refcount["stream"] = 1
  /\ StreamVoices = {}

\* C15: every voice created unpaused is copied, with samples of its source,
\* by the first callback that begins after the play call: when a callback has
\* ended, no voice is left that was created unpaused before it began and
\* that no callback has copied (halted voices apart), whatever calls of halt,
\* stop, play, pause, unpause and setVolume came in between.
C15_MixedByFirstCallback ==
  /\ cb_pc = "idle" => \A id \in DOMAIN unmixed : unmixed[id] = 0
  /\ (cb_pc = "mix" /\ cb_out.id # 0) => cb_out.copied > 0

\* a callback that began after two play calls has copied one of the voices
\* and the other, which was paused meanwhile, is still to be copied by it
C15_Witness ==
  /\ cb_pc = "mix" /\ cb_out.copied > 0
  /\ cb_out.id \notin DOMAIN unmixed
  /\ \E k \in 1..Len(sounds) :
       /\ sounds[k].id \in DOMAIN unmixed
       /\ unmixed[sounds[k].id] = 1
       /\ isPausing(sounds[k])

\* this step is setVolume(c, v) on the voice in slot k, and nothing else
VolumeCall(k) ==
  /\ \E v \in VolSet : sounds' = setVolumeReg(Registry, SlotChannel(k), v).snd
  /\ UNCHANGED <<free_list, number_playing, next_id, Callback>>

C17_HaltIdempotent ==
  \A c \in Channels :
    LET r1 == haltReg(Registry, c)
        p == playSoundReg(r1, next_id, "stereo", nullChannel, 0, 0, 1, 0, FALSE)
    IN /\ haltReg(r1, c) = r1
       /\ c.id \in Live(Registry) =>
            /\ Len(r1.fl) = Len(free_list) + 1
            /\ r1.np = number_playing - 1
            /\ p.ret.idx = c.idx
       /\ haltReg(p.reg, c) = p.reg

\* a voice plays in the slot of a halted voice while another voice is live
C17_Witness ==
  /\ \E h \in halted :
       /\ sounds[gh[h].idx + 1].id > h
       /\ isPlaying(sounds[gh[h].idx + 1])
  /\ number_playing >= 2

\* C18: for every channel c, pause(c) applied to the result of pause(c)
\* changes nothing; after pause(c) a voice in the table reports is_paused,
\* and it is Paused at once or after the one block the next callback copies
\* for it; unpause(c) on a voice that is Playing changes nothing.
C18_PauseIdempotent ==
  \A c \in Channels :
    LET r1 == pauseReg(Registry, c)
    IN /\ pauseReg(r1, c) = r1
       /\ c.id \in Live(Registry) =>
            LET s1 == r1.snd[c.idx + 1]
                s2 == getVolumeData(copySound(s1, audio_tmp_buf_len).s).s
            IN /\ KameMix_isPaused(r1, c) = 1
               /\ isPaused(s1) \/ (isPausing(s1) /\ isPaused(s2))
               /\ isPlaying(sounds[c.idx + 1]) => unpauseReg(Registry, c) = Registry

\* pause was called on a voice after the callback in progress had copied it
C18_Witness ==
  /\ cb_pc = "mix"
  /\ \E k \in 1..Len(sounds) :
       /\ sounds[k].id = cb_out.id
       /\ isPausing(sounds[k])
       /\ pauseReg(Registry, SlotChannel(k)) = Registry

C20_LosslessCopy ==
  [][CbCopied =>
       LET k == cb_i' + 1
           s == sounds[k]
           size == SoundSize("stereo")
           pos == size - gh[s.id].left
           n == Min(audio_tmp_buf_len, size - pos)
       IN (/\ s.tag = "SoundType" /\ s.src = "stereo"
           /\ gh[s.id].loops = 0 /\ ~gh[s.id].touched) =>
            /\ s.buffer_pos = pos /\ n > 0
            /\ cb_out'.id = s.id
            /\ cb_out'.reads = {<<pos, pos + n, size>>}
            /\ cb_out'.copied = n
            /\ cb_out'.vol = One /\ cb_out'.lfade = One /\ cb_out'.efade = One
            /\ gh'[s.id].left = gh[s.id].left - n
            /\ IF pos + n = size
                 THEN s.id \in cb_freed' /\ sounds'[k].id = 0
                 ELSE /\ sounds'[k] = [s EXCEPT !.buffer_pos = pos + n]
                      /\ isPlaying(sounds'[k])]_vars

\* a callback has copied the second and last block of a stereo voice that
\* was started at the beginning of its source, and has freed it
C20_Witness ==
  /\ cb_pc = "mix"
  /\ cb_out.reads = {<<audio_tmp_buf_len, SoundSize("stereo"), SoundSize("stereo")>>}
  /\ cb_out.copied = SoundSize("stereo") - audio_tmp_buf_len
  /\ cb_out.id \in cb_freed
  /\ gh[cb_out.id].loops = 0 /\ ~gh[cb_out.id].touched /\ gh[cb_out.id].left = 0

\* C21: when mutex2 is free and the stream is not fully buffered, advance
\* swaps the buffers exactly when the secondary holds data that readMore
\* produced, updatePos exactly when it holds data that setPos produced, and
\* swapBuffers exactly when it holds any data; each returns StreamReady exactly
\* when it swapped or the stream is fully buffered; a call that did not swap,
\* the one that found mutex2 held included, leaves the stream as it was.
Swapped(c) == c.after # c.before /\ c.after = swapBuffersImpl(c.before)
SwapCase(c) ==
  /\ c.before.size2 > 0
  /\ \/ c.op = "advance" /\ c.src = "readMore"
     \/ c.op = "updatePos" /\ c.src = "setPos"
     \/ c.op = "swapBuffers"
NegativeFade(k) ==
  sounds[k].id \in DOMAIN fade_arg /\ fade_arg[sounds[k].id] < 0
\* this step created the voice in slot k
Created(k) ==
  /\ k <= Len(sounds') /\ sounds'[k].id = next_id /\ next_id' = next_id + 1
  /\ next_id \in DOMAIN fade_arg'

C23_FinishedVolumeZero ==
  \A h \in Retired :
    KameMix_isFinished(Registry, Handle(h)) = 1
      => KameMix_getVolume(Registry, Handle(h)) = 0

\* C24: after release() was called on a SoundBuffer handle, isLoaded() is
\* false for that handle, also while other handles share the data, and the
\* handle has decremented the shared reference count at most once, however
\* often release() is called on it again.
C24_ReleaseUnloads ==
  \A h \in BufferHandles :
    rel[h].called => ~isLoaded(buffers, h) /\ rel[h].decs <= 1

\* C25: in every state (audio_mutex is free between the steps) the free
\* list holds no index twice; it holds exactly the indices of the slots
\* without a live voice, which are the released ones (tag InvalidType, id 0),
\* every other slot holding a voice that is not Finished under an id of its
\* own; and number_playing is the number of slots minus the length of the
\* free list.
C25_FreeListExact ==
  /\ \A i, j \in 1..Len(free_list) : free_list[i] = free_list[j] => i = j
  /\ {free_list[i] : i \in 1..Len(free_list)} =
       {k - 1 : k \in {x \in 1..Len(sounds) : sounds[x].tag = "InvalidType"}}
  /\ \A k \in 1..Len(sounds) :
       IF sounds[k].tag = "InvalidType" THEN sounds[k] = FreedSlot
       ELSE /\ ~isFinished(sounds[k]) /\ sounds[k].id \in 1..(next_id - 1)
            /\ \A j \in 1..Len(sounds) : sounds[j].id = sounds[k].id => j = k
  /\ number_playing = Len(sounds) - Len(free_list)

\* two slots are on the free list, one freed by halt and one by a callback
\* that finished its voice, in the order of these events, while a third
\* voice plays and a callback is between two voices
C25_Witness ==
  /\ Len(free_list) = 2 /\ number_playing = 1 /\ cb_pc = "mix"
  /\ \E h \in halted, f \in cb_freed :
       h # f /\ free_list = <<gh[h].idx, gh[f].idx>> /\ gh[h].idx > gh[f].idx

\* the voice id is in the table with a fade-out pending (asked for by stop,
\* by fadeout or by the play call that replaced it)
FadeoutPending(id) ==
  \E k \in 1..Len(sounds) : sounds[k].id = id /\ isFadingOut(sounds[k])

\* C26: every voice with a fade-out pending, in whatever state it is, is
\* eventually finished and freed (its handle is retired and its slot is on
\* the free list), with the audio device running and whatever the host does
\* or does not do afterwards.
C26_FadeoutTerminates ==
  \A id \in 1..MaxChanPlays :
    FadeoutPending(id)
      ~> (id \in Retired /\ \E i \in 1..Len(free_list) :
                               free_list[i] = gh[id].idx)

\* C27: no swap that a callback attempts for a stream voice returns
\* StreamNoData, so the assertion of streamSwapBuffers never fails: whenever
\* the primary buffer is used up, a readMore or setPos has filled the
\* secondary, has set the error flag or holds mutex2.
C27_NeverNoData ==
  /\ cb_out.swap # "StreamNoData"
  /\ ~aborted

\* the stream voices created with loops >= 0 that were not stopped, halted,
\* replaced or given a new loop count
CountedStreamVoices ==
  {k \in StreamVoices : /\ gh[sounds[k].id].loops >= 0
                        /\ ~gh[sounds[k].id].touched}
\* the voice in slot k has read the primary buffer to its end, which is an
\* end of the stream that the primary does not mark (its end_pos is the
\* earlier one): the next buffer begins at sample 0 (end_pos = 0) and the
\* swap to it has not been made yet
AtUnmarkedEnd(k) ==
  /\ sounds[k].buffer_pos = sdata.size
  /\ sdata.end_pos # sdata.size
  /\ gh[sounds[k].id].left % sdata.total = 0

\* C28: for a stream voice created with loops = n >= 0 (and not stopped,
\* halted or replaced), loop_count is n minus the number of times the voice
\* has passed the end of the stream: with left the samples of
\* (total - start offset) + n * total not yet read, loop_count is
\* ceil(left / total) - 1.  The decrement is made with the read that reaches
\* the end when the end lies inside the primary buffer or at its end, also
\* when the swap that follows fails and is tried again by later callbacks;
\* when the end is the unmarked end of the primary, it is made by the swap
\* that brings in the buffer beginning at sample 0, and until that swap
\* loop_count is left / total.
C28_OneDecrementPerEnd ==
  \A k \in CountedStreamVoices :
    LET s == sounds[k]
        left == gh[s.id].left
    IN IF AtUnmarkedEnd(k) THEN s.loop_count = left \div sdata.total
       ELSE left > 0 /\ s.loop_count = CeilDiv(left, sdata.total) - 1

\* a voice created with loops = 2 has passed the end of the stream once, at
\* the end of the primary buffer; the swap failed, and the callback that
\* tried it again copied nothing, failed again and left loop_count at 1
C28_Witness ==
  /\ cb_pc = "mix" /\ cb_out.copied = 0
  /\ cb_out.swap \in {"StreamNotReady", "StreamNoData"}
  /\ \E k \in CountedStreamVoices :
       /\ sounds[k].id = cb_out.id
       /\ gh[sounds[k].id].loops = 2 /\ sounds[k].loop_count = 1
       /\ sounds[k].buffer_pos = sdata.size /\ sdata.end_pos = sdata.size

\* a voice has passed the end of the stream at offset 0 of the buffer that
\* the swap of this callback step brought in
C28_WitnessSwapped ==
  /\ cb_pc = "mix" /\ cb_out.swap = "StreamReady" /\ sdata.end_pos = 0
  /\ \E k \in CountedStreamVoices :
       /\ sounds[k].id = cb_out.id
       /\ sounds[k].loop_count < gh[sounds[k].id].loops

\* the sample of the stream at which the voice in slot k will read next
StreamAt(k) == StreamOffset(sdata, sounds[k].buffer_pos) % sdata.total
\* the runs of segs follow one another in the stream from sample at on, each
\* within one pass, the next one at sample 0 after a run that ends the stream
RECURSIVE InOrder(_, _)
InOrder(segs, at) ==
  \/ segs = <<>>
  \/ /\ Head(segs)[1] % sdata.total = at
     /\ Head(segs)[1] + Head(segs)[2] <= sdata.total
     /\ InOrder(Tail(segs), (Head(segs)[1] + Head(segs)[2]) % sdata.total)
RECURSIVE SegsLen(_)
SegsLen(segs) == IF segs = <<>> THEN 0 ELSE Head(segs)[2] + SegsLen(Tail(segs))
\* the sample after the last run of segs, at when there is none
SegsEnd(segs, at) ==
  IF segs = <<>> THEN at
  ELSE (segs[Len(segs)][1] + segs[Len(segs)][2]) % sdata.total

\* C29: what a stream voice copies to the scratch buffer is the stream in
\* order: in every step of a callback that copies the voice, the runs copied
\* start at the sample the voice was at before the step, follow one another
\* (the run after one that ends the stream starts at sample 0), add up to
\* the amount copied, and leave the voice, if it is still live, at the sample
\* after the last run, also across the swaps of the step and when the swap
\* fails; and no other step (a decoder task's, a seek's, a host call's)
\* moves the sample a live voice is at.
C29_StreamInOrder ==
  [][\A k \in StreamVoices :
       LET s == sounds[k]
           copied == CbCopied /\ cb_i' + 1 = k /\ ~isFinished(s)
           live == /\ k <= Len(sounds') /\ sounds'[k].id = s.id
                   /\ ~isFinished(sounds'[k])
       IN IF copied
            THEN /\ cb_out'.id = s.id
                 /\ InOrder(cb_out'.segs, StreamAt(k))
                 /\ SegsLen(cb_out'.segs) = cb_out'.copied
                 /\ live => StreamAt(k)' = SegsEnd(cb_out'.segs, StreamAt(k))
            ELSE (s.id # 0 /\ live) => StreamAt(k)' = StreamAt(k)]_vars

\* a step of a callback copied the end of one buffer, swapped, and went on
\* with the start of the next one, which continues the stream; and one
\* copied the end of the stream and went on at sample 0
C29_Witness ==
  /\ cb_pc = "mix" /\ cb_out.swap = "StreamReady" /\ ~sdata.fully_buffered
  /\ Len(cb_out.segs) >= 2
  /\ cb_out.segs[2][1] = cb_out.segs[1][1] + cb_out.segs[1][2]
  /\ cb_out.segs[2][1] # 0
C29_WitnessWrap ==
  /\ cb_pc = "mix" /\ Len(cb_out.segs) >= 2
  /\ cb_out.segs[1][1] + cb_out.segs[1][2] = sdata.total
  /\ cb_out.segs[2][1] = 0
\* a callback that found the voice at the end of the primary after a failed
\* swap swapped and copied the start of the next buffer
C29_WitnessRetry ==
  /\ cb_pc = "mix" /\ cb_out.swap = "StreamReady" /\ ~sdata.fully_buffered
  /\ Len(cb_out.segs) = 1 /\ cb_out.segs[1][1] = sdata.org % sdata.total
  /\ \E rd \in cb_out.reads : rd[1] = rd[3] /\ rd[2] = rd[3]
  /\ <<0, cb_out.segs[1][2], sdata.size>> \in cb_out.reads

\* the primary buffer of the stream
Primary(st) == <<st.org, st.time, st.size, st.end_pos>>
\* a step of KameMix_playStream's setPos(start, true) that swapped
SeekSwapped ==
  host_pc = "seek" /\ host_pc' = "relock" /\ ~sdata.fully_buffered

\* C30: the buffers of a stream are swapped only when the secondary holds
\* data and no voice is part-way through the primary.  A swap made by a
\* callback for a voice is made when that voice has read the primary to its
\* end (the offset it has copied up to is the primary's size), the secondary
\* is not empty, and no other voice references the stream; a swap made by
\* the seek of KameMix_playStream is made when no voice in the table
\* references the stream, and brings in the data the seek read; and no other
\* step changes the primary buffer.
C30_SwapOnlyWhenConsumed ==
  [][/\ CbCopied =>
          /\ \A i \in 1..Len(cb_out'.swaps) :
                /\ cb_out'.swaps[i].size2 > 0
                /\ cb_out'.swaps[i].at = cb_out'.swaps[i].size
          /\ cb_out'.swaps # <<>> =>
                /\ StreamVoices = {cb_i' + 1}
                /\ sounds[cb_i' + 1].id = cb_out'.id
          /\ cb_out'.swaps = <<>> => Primary(sdata') = Primary(sdata)
     /\ SeekSwapped => StreamVoices = {} /\ sdata'.size > 0
     /\ (~CbCopied /\ ~SeekSwapped) => Primary(sdata') = Primary(sdata)]_vars

\* a callback step swapped for a voice that it had found in the middle of
\* the primary buffer and had copied to the end of it
C30_Witness ==
  /\ cb_pc = "mix" /\ Len(cb_out.swaps) = 1
  /\ \E rd \in cb_out.reads : rd[1] > 0 /\ rd[1] < rd[2] /\ rd[2] = rd[3]
  /\ cb_out.swaps[1].at = cb_out.swaps[1].size /\ cb_out.swaps[1].size2 > 0
\* the seek of KameMix_playStream has swapped while a callback is between
\* two voices, after the call halted the voice that referenced the stream
C30_WitnessSeek ==
  /\ host_pc = "relock" /\ ~sdata.fully_buffered /\ sdata.size > 0
  /\ stream_ch.id \in halted /\ StreamVoices = {}
  /\ cb_pc = "mix"

\* the secondary buffer of the stream and the decoder's place in the file
Secondary(st) == <<st.org2, st.time2, st.size2, st.end_pos2, st.fpos>>
\* steps of a readMore thread: it returns without reading, it ends its read
ReadMoreReturned == read_tasks' = read_tasks - 1 /\ m2' = m2
ReadMoreRead == m2 = "dec" /\ m2' = "none"

\* C31: however many readMore threads a stream has, one at a time holds
\* mutex2, and one reads per filling of the secondary buffer: a thread reads
\* only into an empty secondary (and changes nothing of the primary), a
\* thread that finds data in the secondary returns and leaves the stream as
\* it is, while a thread reads no other step touches the secondary, and a
\* secondary that holds data is changed only by the swap of a callback or by
\* the seek of KameMix_playStream.
C31_ReadMoreSerialised ==
  [][/\ ReadMoreRead =>
          /\ sdata.size2 = 0 /\ ~sdata.error
          /\ Primary(sdata') = Primary(sdata)
     /\ ReadMoreReturned => sdata' = sdata
     /\ (m2 = "dec" /\ m2' = "dec") => sdata' = sdata
     /\ (sdata.size2 > 0 /\ Secondary(sdata') # Secondary(sdata)) =>
          \/ CbCopied /\ cb_out'.swaps # <<>>
          \/ host_pc = "seek" /\ host_pc' # "seek"]_vars

\* a thread has filled the secondary while another thread of the stream
\* was waiting for mutex2; it will find the data and return
C31_Witness ==
  /\ m2 = "none" /\ sdata.size2 > 0 /\ ~sdata.error
  /\ read_tasks >= 1
\* a thread is reading while another one waits for mutex2
C31_WitnessWaiting == m2 = "dec" /\ read_tasks >= 1

\* thread t is in the loop of System::update: it has passed the lock_guard
\* on audio_mutex and has not reached the end of the function
InSweep(t) ==
  /\ lk_pc[t].path = updateLocks
  /\ \E k \in 1..Len(lk_held[t]) : lk_held[t][k] = "audio_mutex"
  /\ Instr(t) # Unlock("audio_mutex")
\* the audio thread is between the start and the end of a callback
InCallback == "callback" \in Holders("device")

\* C32: while a thread is in the loop of update, which removes and moves
\* voices, the audio thread is not inside a callback, neither in a section
\* that holds audio_mutex nor in one where the callback has released it to
\* apply the volume and mix.
C32_SweepOutsideCallback == \A t \in Threads : InSweep(t) => ~InCallback

\* a thread is in the loop of update, swapping the buffers of a stream,
\* while the audio thread waits for the device lock to run a callback
C32_Witness ==
  /\ InSweep("host") /\ "host" \in Holders("mutex")
  /\ Running("callback") /\ Instr("callback") = Lock("device")
\* update waits for the device lock while a callback is in a section
\* without audio_mutex
C32_WitnessWaiting ==
  /\ lk_pc["host"].path = updateLocks /\ Instr("host") = Lock("device")
  /\ InCallback /\ "callback" \notin Holders("audio_mutex")
  /\ Instr("callback").op = "lock"

\* thread t is about to read or write the voice table without audio_mutex
UnlockedUse(t) ==
  /\ Running(t) /\ Instr(t).op = "use"
  /\ t \notin Holders("audio_mutex")
\* only AudioSystem::audioCallback does so
UnlockedUseOnlyAudioSystem ==
  \A t \in Threads :
    UnlockedUse(t) => lk_pc[t].path = AudioSystem_audioCallbackUses

\* C33: every read or write of an entry of the voice table, by the audio
\* thread and by a host call, is made by a thread that holds audio_mutex;
\* between guard.unlock() and guard.lock() the callback uses its scratch
\* buffer and local copies only.
C33_TableUnderMutex == \A t \in Threads : ~UnlockedUse(t)

\* the voice of object o, if its mix_idx is set, exists and is a voice of o
MixIdxValid(o) ==
  mix_idx[o] # -1 =>
    /\ mix_idx[o] < Len(sounds)
    /\ sounds[mix_idx[o] + 1].src = o

\* C34: after every update, the mix_idx of each object is unset or is the
\* index of a voice in the table that belongs to the object; so an object
\* whose voice was halted, which has no voice left in the table after the
\* update, has its mix_idx unset.
C34_MixIdxAfterUpdate == updated => \A o \in Sources : MixIdxValid(o)

\* every call on the stream returns success and leaves it as it is
Frozen(st) ==
  /\ \A held \in BOOLEAN :
       /\ swapBuffers(st, held) = [st |-> st, result |-> "StreamReady"]
       /\ advance(st, held) = [st |-> st, result |-> "StreamReady"]
       /\ updatePos(st, held) = [st |-> st, result |-> "StreamReady"]
  /\ \A sec \in SeekSet, swap_buffers \in BOOLEAN, ok \in BOOLEAN :
       setPosBuffers(st, sec, swap_buffers, ok) = [st |-> st, ret |-> TRUE]

\* C35: a fully buffered stream has the end_pos of its primary buffer set,
\* its secondary buffer stays empty, no readMore thread reads for it,
\* swapBuffers, advance, updatePos and setPos return success and leave every
\* field as it is, and no step changes the stream.
C35_FullyBufferedFrozen ==
  /\ [](sdata.fully_buffered =>
          /\ sdata.end_pos # -1 /\ sdata.size2 = 0 /\ ~sdata.error
          /\ m2 # "dec"
          /\ Frozen(sdata)
          /\ sb_call.op # "none" =>
               sb_call.result = "StreamReady" /\ sb_call.after = sb_call.before)
  /\ [][sdata.fully_buffered => sdata' = sdata]_vars

\* advance was called on a fully buffered stream while nothing held mutex2
\* and returned StreamReady
C35_Witness ==
  /\ sdata.fully_buffered /\ sdata.end_pos = sdata.size
  /\ sb_call.op = "advance" /\ sb_call.result = "StreamReady"
  /\ sb_call.before = sdata
\* the stream whose file was taken to fit one buffer and decoded to more:
\* the read filled the buffer without meeting the end of the stream
C35_WitnessFilled ==
  /\ sdata.fully_buffered /\ sdata.size < sdata.total
  /\ sdata.end_pos = sdata.size
  /\ sb_call.op = "swapBuffers"

\* C36: in every state between two steps (audio_mutex is free) a voice that
\* is fading out and is not Finished has fade_time > 0, and the callback step
\* that copies a Playing voice whose fade-out has secs_per_callback or less
\* left frees the voice in that same step.
C36_FadeoutTimePositive ==
  /\ [](\A k \in 1..Len(sounds) :
          (isFadingOut(sounds[k]) /\ ~isFinished(sounds[k]))
            => sounds[k].fade_time > 0)
  /\ [][\A k \in 1..Len(sounds) :
          (/\ CopiedSlot(k)
           /\ isFadingOut(sounds[k]) /\ isPlaying(sounds[k])
           /\ sounds[k].fade_time - secs_per_callback <= 0)
            => /\ isFinished(sounds'[k])
               /\ sounds[k].id \in cb_freed'
               /\ sounds[k].id \notin Live(Registry)']_vars

\* a callback has just mixed the last block of a fade-out that took more
\* than one callback, and freed the voice
C36_Witness ==
  /\ cb_pc = "mix" /\ cb_out.id \in cb_freed /\ cb_out.id \in DOMAIN fo
  /\ cb_out.efade[1] <= 0
  /\ fo[cb_out.id].n >= 2
\* a voice paused in the middle of its fade-out
C36_WitnessPaused ==
  \E k \in 1..Len(sounds) :
    /\ isFadingOut(sounds[k]) /\ isPaused(sounds[k])
    /\ sounds[k].fade_time < -sounds[k].fade_total

FadeOf(s) == <<s.fade_time, s.fade_total>>

\* C37: the callback step that copies a Pausing or Unpausing voice (and does
\* not end it) leaves its fade_time and fade_total as they are; no callback
\* step changes any field of a Paused voice; pause and unpause leave the fade
\* of the voice as it is.  So the fade of a voice is the same after
\* pause, ramp down, any number of callbacks, unpause and ramp up.
C37_PauseKeepsFade ==
  [][\A k \in 1..Len(sounds) :
       Stays(k) =>
         /\ (CopiedSlot(k) /\ isPauseChanging(sounds[k]))
              => FadeOf(sounds'[k]) = FadeOf(sounds[k])
         /\ (isPaused(sounds[k]) /\ Callback' # Callback)
              => sounds'[k] = sounds[k]
         /\ (PauseCall(k) \/ UnpauseCall(k))
              => FadeOf(sounds'[k]) = FadeOf(sounds[k])]_vars

\* a callback has just mixed the ramp-up block of a voice that is in the
\* middle of a fade: the fade had begun before the voice was paused
C37_Witness ==
  /\ cb_pc = "mix" /\ cb_out.lfade = Zero
  /\ \E k \in 1..Len(sounds) :
       /\ sounds[k].id = cb_out.id /\ isPlaying(sounds[k])
       /\ \/ isFadingIn(sounds[k]) /\ sounds[k].fade_time > 0
          \/ isFadingOut(sounds[k])
               /\ sounds[k].fade_time < -sounds[k].fade_total
\* a callback has just mixed the ramp-down block of a voice in mid fade
C37_WitnessPausing ==
  /\ cb_pc = "mix" /\ cb_out.efade = Zero
  /\ \E k \in 1..Len(sounds) :
       /\ sounds[k].id = cb_out.id /\ isPaused(sounds[k])
       /\ isFading(sounds[k]) /\ sounds[k].fade_time > 0

\* this step is a stop or fadeout on the voice in slot k
FadeoutCall(k) ==
  /\ UNCHANGED Callback
  /\ \E f \in FadeOutSet :
       sounds' = fadeoutReg(Registry, SlotChannel(k), f).snd
\* the gain at which the next block of the voice starts
FirstGain(s) == FMul(getVolumeData(s).vol, getVolumeData(s).lfade)
\* the gain at which the block the callback has just mixed ended
LastGain == FMul(cb_out.vol, cb_out.efade)
\* the request arrives after the callback mixed a block of the Playing voice
\* in slot k, and the next block of the voice does not start above the end of
\* that block
FadeoutKeepsGain(k) ==
  (/\ Stays(k) /\ FadeoutCall(k)
   /\ cb_pc = "mix" /\ cb_out.id = sounds[k].id /\ isPlaying(sounds[k]))
    => FLe(FirstGain(sounds'[k]), LastGain)

\* C38: a stop or fadeout on a Playing voice does not raise its gain: the
\* next block of the voice starts at a gain that is not above the gain at
\* which its last block ended, whether the voice was at its full gain, in
\* the middle of a fade-in or already fading out.
C38_FadeoutNeverRaises ==
  [][\A k \in 1..Len(sounds) : FadeoutKeepsGain(k)]_vars

\* the same for a voice that is not fading when the request arrives
FadeoutFromFullGain ==
  [][\A k \in 1..Len(sounds) :
       ~isFading(sounds[k]) => FadeoutKeepsGain(k)]_vars

\* applyVolume with VolumeData: the block is cut into mod_times + 1 pieces,
\* piece i scaled by the fade lfade + i * lmod, where mod_times = |delta| /
\* 0.02 (at most 50) and lmod = delta / (mod_times + 1) for delta = end -
\* start.  Result: the fade of the last piece.
MaxModTimes == 50
applyVolumeLast(start, end) ==
  LET delta == <<end[1] * start[2] - start[1] * end[2], start[2] * end[2]>>
      abs == IF delta[1] < 0 THEN -delta[1] ELSE delta[1]
      mod_times == Min(MaxModTimes, (abs * MaxModTimes) \div delta[2])
  IN <<start[1] * end[2] * (mod_times + 1) + mod_times * delta[1],
       delta[2] * (mod_times + 1)>>
InUnit(x) == FLe(Zero, x) /\ FLe(x, One)
\* the ramp of the block just mixed: its start, its end and its last piece
RampInUnit ==
  /\ InUnit(cb_out.lfade)
  /\ InUnit(cb_out.efade)
  /\ InUnit(applyVolumeLast(cb_out.lfade, cb_out.efade))

\* C39: the fade fraction of every block a callback mixes lies in [0, 1] at
\* the start of the block's ramp, at its end and in its last piece, for fade
\* lengths that are whole multiples of the callback period and for those
\* that are not.
C39_FadeFractionInUnit == cb_pc = "mix" => RampInUnit

\* the same for blocks whose fade length is a whole multiple of the period
\* (a fraction of denominator 1 is the one of a voice that is not fading)
WholePeriods(x) == x[2] = 1 \/ x[2] % secs_per_callback = 0
FadeFractionInUnitWholePeriods ==
  (cb_pc = "mix" /\ WholePeriods(cb_out.lfade) /\ WholePeriods(cb_out.efade))
    => RampInUnit

\* a readMore thread of the stream is waiting to run or holds mutex2
DecoderPending == read_tasks > 0 \/ m2 = "dec"
\* the secondary buffer is empty and nothing tells the callback to stop
SecondaryWanted ==
  ~sdata.fully_buffered /\ ~sdata.error /\ sdata.size2 = 0
\* the Playing stream voice id is at the end of the primary buffer
Exhausted(id) ==
  /\ ~sdata.fully_buffered /\ ~sdata.error
  /\ \E k \in StreamVoices :
       /\ sounds[k].id = id /\ isPlaying(sounds[k])
       /\ sounds[k].buffer_pos = sdata.size
\* the callback has just swapped the buffers for the voice id
GotSwap(id) == cb_pc = "mix" /\ cb_out.id = id /\ cb_out.swaps # <<>>

\* C40: while the stream is not fully buffered, has no error and has an
\* empty secondary buffer, a readMore thread is waiting to run or is
\* reading; and, with the threads and the callback scheduled again and
\* again, a Playing stream voice at the end of the primary buffer gets a
\* successful swap, unless the decoder fails or the host ends the voice
\* first.
C40_DecoderPendingAndSwap ==
  /\ [](SecondaryWanted => DecoderPending)
  /\ \A id \in 1..MaxStreamPlays :
       Exhausted(id) ~>
         (GotSwap(id) \/ sdata.error \/ id \notin Live(Registry))

\* the same, but for a process that a failed assertion ended
DecoderPendingAndSwapUnlessAborted ==
  /\ [](SecondaryWanted => DecoderPending)
  /\ \A id \in 1..MaxStreamPlays :
       Exhausted(id) ~>
         (GotSwap(id) \/ sdata.error \/ id \notin Live(Registry) \/ aborted)
\* the first half alone
DecoderPendingWhenWanted == SecondaryWanted => DecoderPending

\* a voice is at the end of the primary buffer after a swap that failed
\* because the thread had not begun to read, and the thread is still waiting
C40_Witness ==
  /\ cb_pc = "mix" /\ cb_out.swap = "StreamNoData"
  /\ Exhausted(cb_out.id)
  /\ SecondaryWanted /\ read_tasks > 0 /\ m2 = "none"
\* a voice that began the callback at the end of the primary buffer (its
\* first read is empty) has got its swap, and the next thread is waiting
C40_WitnessSwapped ==
  /\ \E id \in 1..MaxStreamPlays : GotSwap(id)
  /\ \E rd \in cb_out.reads : rd[1] = rd[3] /\ rd[2] = rd[3]
  /\ cb_out.swaps[1].at = cb_out.swaps[1].size
  /\ SecondaryWanted /\ DecoderPending

TypeOK ==
  /\ number_playing \in 0..(MaxPlays + 1)
  /\ cb_pc \in {"idle", "mix"}
====
